---- MODULE Spec2Model ----
(***************************************************************************)
(* HackWreck: a catalogue of hackathon projects.  A repository URL is      *)
(* validated, checked against the store for a duplicate, analysed by an    *)
(* external model whose JSON answer is parsed, and inserted into the       *)
(* hacks table;   records are deleted by id and read back by filtered      *)
(* queries and aggregate statistics.                                       *)
(*                                                                         *)
(* Text is modelled as sequences of one-character strings, so that the     *)
(* string searches, slices and pattern matches of the source are computed  *)
(* as the source computes them.                                            *)
(***************************************************************************)
EXTENDS Integers, Sequences, FiniteSets, TLC

VARIABLES
    hacks,       \* the rows of table hacks (a set of records)
    nextId,      \* the next AUTOINCREMENT id the store hands out
    pc,          \* pc[p]: where request p stands in its handler
    loc,         \* loc[p]: the locals of request p's handler
    batch,       \* the state of one batch_insert_from_file run
    probe        \* a pure function's input and result

vars == <<hacks, nextId, pc, loc, batch, probe>>

\* Python's None and SQL NULL.  TLC compares only values of one kind, so None
\* is written per kind: for a message, for a text (a one-element sequence that
\* no text equals), for an id (ids start at 1), for parsed data and for an
\* owner/repo pair.
None == "None"
NULL == <<"NULL">>
NoId == 0
NoData == [ok |-> FALSE, kind |-> "none", val |-> <<>>]
NoLookup == <<>>

(***************************************************************************)
(* Bounds of the model.                                                    *)
(***************************************************************************)
MaxContent == 4   \* longest string value inside a model answer (SpecParse)
MaxRows == 2      \* ids the store ever hands out
MaxStatRows == 3  \* rows of a table the statistics and the reads are computed over
MaxLines == 3     \* lines of a batch file
MaxLimit == 2     \* largest limit passed to a read (SpecQuery)
MaxPieces == 5    \* pieces a model answer is put together from (SpecFence)
MaxLeaks == 2     \* connections left open at which no further call begins (SpecGateway)
MaxPool == 8      \* projects the tables of SpecRelated are drawn from
MaxCorsPieces == 4  \* pieces a CORS_ORIGINS value is made of (SpecCors)

Min(S) == CHOOSE x \in S : \A y \in S : x <= y
Max(S) == CHOOSE x \in S : \A y \in S : y <= x
SeqsUpTo(S, n) == UNION {[1..k -> S] : k \in 0..n}

(***************************************************************************)
(* Python string operations, on sequences of characters.                   *)
(***************************************************************************)
Whitespace == {" ", "\n"}

\* str.find(pat, start): lowest 0-based index >= start where pat occurs, else -1
Find(s, pat, start) ==
    LET hits == {i \in start..(Len(s) - Len(pat)) :
                    SubSeq(s, i + 1, i + Len(pat)) = pat}
    IN  IF hits = {} THEN -1 ELSE Min(hits)

\* pat in s
Contains(s, pat) == Find(s, pat, 0) # -1

\* s[a:b] with Python's treatment of negative and out-of-range indices
Slice(s, a, b) ==
    LET n  == Len(s)
        na == IF a < 0 THEN a + n ELSE a
        nb == IF b < 0 THEN b + n ELSE b
        lo == IF na < 0 THEN 0 ELSE IF na > n THEN n ELSE na
        hi == IF nb < 0 THEN 0 ELSE IF nb > n THEN n ELSE nb
    IN  IF lo >= hi THEN <<>> ELSE SubSeq(s, lo + 1, hi)

\* str.strip(): drop leading and trailing whitespace
Strip(s) ==
    LET keep == {i \in 1..Len(s) : s[i] \notin Whitespace}
    IN  IF keep = {} THEN <<>>
        ELSE SubSeq(s, Min(keep), Max(keep))

\* str.rstrip(chars): drop every trailing character that is in chars
RStrip(s, chars) ==
    LET keep == {i \in 1..Len(s) : s[i] \notin chars}
    IN  IF keep = {} THEN <<>> ELSE SubSeq(s, 1, Max(keep))

StartsWith(s, pat) == Len(s) >= Len(pat) /\ SubSeq(s, 1, Len(pat)) = pat
EndsWith(s, pat) == Len(s) >= Len(pat) /\ SubSeq(s, Len(s) - Len(pat) + 1, Len(s)) = pat
DropLast(s, k) == SubSeq(s, 1, Len(s) - k)

(***************************************************************************)
(* json.loads, on the JSON texts the model draws: an object whose members  *)
(* have string, number or null values, or one such value alone, with       *)
(* whitespace between the tokens.  A number is -?digits(.digits)?; a       *)
(* string runs to the next quote and holds no line break (strict mode      *)
(* rejects one).  Escapes, exponents, arrays, nested objects and the       *)
(* literals true and false occur in no text drawn here.  Anything else is  *)
(* a JSONDecodeError.                                                      *)
(*                                                                         *)
(* A value is a record: a string carries its text, a number its decimal    *)
(* digits num and the count scale of them behind the point (7.5 is 75      *)
(* with scale 1; scale 0 is a Python int, a larger scale a float).  A      *)
(* parsed object is the sequence of its members in text order; a value     *)
(* alone is a single member with the empty key.                            *)
(***************************************************************************)
Digits == {"0", "1", "2", "3", "4", "5", "6", "7", "8", "9"}
DigitSeq == <<"0", "1", "2", "3", "4", "5", "6", "7", "8", "9">>

JNull == [kind |-> "null", num |-> 0, scale |-> 0, text |-> <<>>]
JStr(s) == [kind |-> "string", num |-> 0, scale |-> 0, text |-> s]

JNum(m, sc) == [kind |-> "number", num |-> m, scale |-> sc, text |-> <<>>]

RECURSIVE Pow10(_)
Pow10(k) == IF k = 0 THEN 1 ELSE 10 * Pow10(k - 1)

\* Python's == and < on two numbers (7 == 7.0)
NumEq(a, b) == a.num * Pow10(b.scale) = b.num * Pow10(a.scale)
NumLess(a, b) == a.num * Pow10(b.scale) < b.num * Pow10(a.scale)

\* Python's == on two values: numbers by value, strings by text, None with None
PyEq(a, b) ==
    IF a.kind = "number" /\ b.kind = "number" THEN NumEq(a, b)
    ELSE a.kind = b.kind /\ a.text = b.text

JsonError == [ok |-> FALSE, kind |-> "error", val |-> <<>>]
ParseFail == [ok |-> FALSE, next |-> 0, value |-> JNull]

DigitVal(c) == (CHOOSE k \in 1..10 : DigitSeq[k] = c) - 1

RECURSIVE ToInt(_)
ToInt(ds) ==
    IF ds = <<>> THEN 0
    ELSE 10 * ToInt(SubSeq(ds, 1, Len(ds) - 1)) + DigitVal(ds[Len(ds)])

\* the first position from i on that holds no whitespace (Len(t) + 1: none)
SkipWs(t, i) == Min({j \in i..(Len(t) + 1) : j > Len(t) \/ t[j] \notin Whitespace})

\* the first position from i on that holds no digit
DigitsEnd(t, i) == Min({j \in i..(Len(t) + 1) : j > Len(t) \/ t[j] \notin Digits})

\* a string token opening at position i
ParseString(t, i) ==
    IF {j \in (i + 1)..Len(t) : t[j] = "\""} = {} THEN ParseFail
    ELSE IF \E k \in (i + 1)..(Min({j \in (i + 1)..Len(t) : t[j] = "\""}) - 1) :
                t[k] = "\n"
    THEN ParseFail
    ELSE [ok |-> TRUE, next |-> Min({j \in (i + 1)..Len(t) : t[j] = "\""}) + 1,
          value |-> JStr(SubSeq(t, i + 1, Min({j \in (i + 1)..Len(t) : t[j] = "\""}) - 1))]

\* the digits of a number whose integer part spans d..(e - 1); neg: a minus
\* sign precedes it
ParseFraction(t, d, e, neg) ==
    IF e > d + 1 /\ t[d] = "0" THEN ParseFail   \* a leading zero
    ELSE IF e <= Len(t) /\ t[e] = "." /\ DigitsEnd(t, e + 1) > e + 1
    THEN [ok |-> TRUE, next |-> DigitsEnd(t, e + 1),
          value |-> JNum((IF neg THEN -1 ELSE 1) *
                             ToInt(SubSeq(t, d, e - 1) \o
                                   SubSeq(t, e + 1, DigitsEnd(t, e + 1) - 1)),
                         DigitsEnd(t, e + 1) - (e + 1))]
    ELSE IF e <= Len(t) /\ t[e] = "." THEN ParseFail
    ELSE [ok |-> TRUE, next |-> e,
          value |-> JNum((IF neg THEN -1 ELSE 1) * ToInt(SubSeq(t, d, e - 1)), 0)]

\* a number token opening at position i
ParseNumber(t, i) ==
    IF t[i] = "-"
    THEN IF DigitsEnd(t, i + 1) = i + 1 THEN ParseFail
         ELSE ParseFraction(t, i + 1, DigitsEnd(t, i + 1), TRUE)
    ELSE ParseFraction(t, i, DigitsEnd(t, i), FALSE)

\* a string, number or null opening at position i
ParseValue(t, i) ==
    IF i > Len(t) THEN ParseFail
    ELSE IF t[i] = "\"" THEN ParseString(t, i)
    ELSE IF t[i] \in Digits \cup {"-"} THEN ParseNumber(t, i)
    ELSE IF i + 3 <= Len(t) /\ SubSeq(t, i, i + 3) = <<"n", "u", "l", "l">>
    THEN [ok |-> TRUE, next |-> i + 4, value |-> JNull]
    ELSE ParseFail

\* the members of an object from position i, a key expected there; acc holds
\* the members read so far.  The result's next is the position behind "}".
RECURSIVE ParseMembers(_, _, _)
ParseAfterValue(t, key, v, acc) ==
    IF ~v.ok THEN [ok |-> FALSE, next |-> 0, val |-> <<>>]
    ELSE IF SkipWs(t, v.next) > Len(t) THEN [ok |-> FALSE, next |-> 0, val |-> <<>>]
    ELSE IF t[SkipWs(t, v.next)] = "}"
    THEN [ok |-> TRUE, next |-> SkipWs(t, v.next) + 1,
          val |-> Append(acc, [key |-> key, value |-> v.value])]
    ELSE IF t[SkipWs(t, v.next)] = ","
    THEN ParseMembers(t, SkipWs(t, SkipWs(t, v.next) + 1),
                      Append(acc, [key |-> key, value |-> v.value]))
    ELSE [ok |-> FALSE, next |-> 0, val |-> <<>>]

ParseAfterKey(t, k, acc) ==
    IF ~k.ok THEN [ok |-> FALSE, next |-> 0, val |-> <<>>]
    ELSE IF SkipWs(t, k.next) > Len(t) \/ t[Min({SkipWs(t, k.next), Len(t)})] # ":"
    THEN [ok |-> FALSE, next |-> 0, val |-> <<>>]
    ELSE ParseAfterValue(t, k.value.text,
                         ParseValue(t, SkipWs(t, SkipWs(t, k.next) + 1)), acc)

ParseMembers(t, i, acc) ==
    IF i > Len(t) \/ t[Min({i, Len(t)})] # "\""
    THEN [ok |-> FALSE, next |-> 0, val |-> <<>>]
    ELSE ParseAfterKey(t, ParseString(t, i), acc)

\* an object opening at position i
ParseObject(t, i) ==
    IF SkipWs(t, i + 1) <= Len(t) /\ t[Min({SkipWs(t, i + 1), Len(t)})] = "}"
    THEN [ok |-> TRUE, next |-> SkipWs(t, i + 1) + 1, val |-> <<>>]
    ELSE ParseMembers(t, SkipWs(t, i + 1), <<>>)

\* the document is the value and nothing but whitespace behind it
JsonObjectResult(t, o) ==
    IF o.ok /\ SkipWs(t, o.next) > Len(t)
    THEN [ok |-> TRUE, kind |-> "object", val |-> o.val]
    ELSE JsonError

JsonValueResult(t, v) ==
    IF v.ok /\ SkipWs(t, v.next) > Len(t)
    THEN [ok |-> TRUE, kind |-> v.value.kind,
          val |-> <<[key |-> <<>>, value |-> v.value]>>]
    ELSE JsonError

json_loads(text) ==
    IF SkipWs(text, 1) > Len(text) THEN JsonError
    ELSE IF text[SkipWs(text, 1)] = "{"
    THEN JsonObjectResult(text, ParseObject(text, SkipWs(text, 1)))
    ELSE JsonValueResult(text, ParseValue(text, SkipWs(text, 1)))

\* key in data (data a parsed dict)
HasKey(data, key) ==
    data.ok /\ data.kind = "object" /\ \E k \in 1..Len(data.val) : data.val[k].key = key

\* data[key]: the last member with the key (a repeated key keeps its last value)
GetKey(data, key) ==
    data.val[Max({k \in 1..Len(data.val) : data.val[k].key = key})].value

\* The backquote character; the string "bq" stands for it, since a TLA+
\* string cannot hold a backquote.
BQ == "bq"
FENCE == <<BQ, BQ, BQ>>
FENCE_JSON == <<BQ, BQ, BQ, "j", "s", "o", "n">>

\* parse_json_response with the json-fence offset of the plain fence
parse_json_response_short_offset(response_text) ==
    LET t == Strip(response_text)
    IN  IF Contains(t, FENCE_JSON)
        THEN LET start == Find(t, FENCE_JSON, 0) + 3
                 end   == Find(t, FENCE, start)
             IN  json_loads(Strip(Slice(t, start, end)))
        ELSE IF Contains(t, FENCE)
        THEN LET start == Find(t, FENCE, 0) + 3
                 end   == Find(t, FENCE, start)
             IN  json_loads(Strip(Slice(t, start, end)))
        ELSE json_loads(t)

\* the fence stripping that takes every fence for an untagged one
strip_fence_untagged(response_text) ==
    LET t == Strip(response_text)
    IN  IF Contains(t, FENCE)
        THEN LET start == Find(t, FENCE, 0) + 3
                 end   == Find(t, FENCE, start)
             IN  Strip(Slice(t, start, end))
        ELSE t

\* parse_json_response, lines 138-148 (scrape.auto_insert_hack, lines
\* 109-121): the text handed to json.loads
strip_fence(response_text) ==
    LET t == Strip(response_text)
    IN  IF Contains(t, FENCE_JSON)
        THEN LET start == Find(t, FENCE_JSON, 0) + 7
                 end   == Find(t, FENCE, start)
             IN  Strip(Slice(t, start, end))
        ELSE IF Contains(t, FENCE)
        THEN LET start == Find(t, FENCE, 0) + 3
                 end   == Find(t, FENCE, start)
             IN  Strip(Slice(t, start, end))
        ELSE t

\* gemini_client.parse_json_response; scrape.auto_insert_hack inlines the same code
parse_json_response(response_text) == json_loads(strip_fence(response_text))

(***************************************************************************)
(* validate_github_url: the format check and the remote existence check.   *)
(***************************************************************************)
HTTP == <<"h", "t", "t", "p", ":", "/", "/">>
HTTPS == <<"h", "t", "t", "p", "s", ":", "/", "/">>
FTP == <<"f", "t", "p", ":", "/", "/">>
WWW == <<"w", "w", "w", ".">>
GITHUB == <<"g", "i", "t", "h", "u", "b", ".", "c", "o", "m", "/">>
GITLAB == <<"g", "i", "t", "l", "a", "b", ".", "c", "o", "m", "/">>
DOT_GIT == <<".", "g", "i", "t">>

LowerCase == {"a", "b", "c", "d", "e", "f", "g", "h", "i", "j", "k", "l", "m",
              "n", "o", "p", "q", "r", "s", "t", "u", "v", "w", "x", "y", "z"}
UpperCase == {"A", "B", "C", "D", "E", "F", "G", "H", "I", "J", "K", "L", "M",
              "N", "O", "P", "Q", "R", "S", "T", "U", "V", "W", "X", "Y", "Z"}
OwnerChars == LowerCase \cup UpperCase \cup Digits \cup {"_", "-"}   \* [a-zA-Z0-9_-]
RepoChars == OwnerChars \cup {"."}                                   \* [a-zA-Z0-9._-]

NoMatch == [matched |-> FALSE, username |-> <<>>, repo |-> <<>>]

\* ^https?://(?:www\.)?github\.com/
UrlPrefixes == {HTTP \o GITHUB, HTTPS \o GITHUB,
                HTTP \o WWW \o GITHUB, HTTPS \o WWW \o GITHUB}

\* re.match(pattern, url) and match.groups().  `$` also matches before one
\* final newline; the lazy repo group yields to an optional ".git" suffix.
match_pattern(url) ==
    LET u0 == IF EndsWith(url, <<"\n">>) THEN DropLast(url, 1) ELSE url
        ps == {p \in UrlPrefixes : StartsWith(u0, p)}
    IN  IF ps = {} THEN NoMatch
        ELSE
        LET p    == CHOOSE q \in ps : TRUE
            rest == SubSeq(u0, Len(p) + 1, Len(u0))
            cut  == Find(rest, <<"/">>, 0)
        IN  IF cut < 1 THEN NoMatch
            ELSE
            LET owner == SubSeq(rest, 1, cut)
                tail  == SubSeq(rest, cut + 2, Len(rest))
                tail0 == IF EndsWith(tail, <<"/">>) THEN DropLast(tail, 1) ELSE tail
                repo  == IF EndsWith(tail0, DOT_GIT) /\ Len(tail0) > Len(DOT_GIT)
                         THEN DropLast(tail0, Len(DOT_GIT)) ELSE tail0
            IN  IF /\ \A i \in 1..Len(owner) : owner[i] \in OwnerChars
                   /\ Len(tail0) >= 1
                   /\ \A i \in 1..Len(tail0) : tail0[i] \in RepoChars
                THEN [matched |-> TRUE, username |-> owner, repo |-> repo]
                ELSE NoMatch

\* What requests.get(api_url) may produce: an exception, or a response with
\* a status code and a body that carries a "name" or not.
NetworkError == [kind |-> "exception", status_code |-> 0, has_name |-> FALSE]
StatusCodes == {200, 403, 404, 500}
RemoteOutcomes ==
    {NetworkError} \cup
    {[kind |-> "response", status_code |-> c, has_name |-> b] :
        c \in StatusCodes, b \in BOOLEAN}

\* validate_github_url with the 403 branch rejecting instead of failing open
validate_github_url_closed(url, remote) ==
    LET m == match_pattern(url)
    IN  IF ~m.matched
        THEN [valid |-> FALSE, error |-> "Invalid GitHub URL format",
              warned |-> FALSE, lookup |-> NoLookup]
        ELSE
        LET repo == RStrip(m.repo, {".", "g", "i", "t"})
            api  == <<m.username, repo>>
        IN  IF remote.kind = "exception"
            THEN [valid |-> FALSE, error |-> "Network error checking repository",
                  warned |-> FALSE, lookup |-> api]
            ELSE IF remote.status_code = 404
            THEN [valid |-> FALSE, error |-> "Repository not found",
                  warned |-> FALSE, lookup |-> api]
            ELSE IF remote.status_code # 200
            THEN [valid |-> FALSE, error |-> "Could not verify repository",
                  warned |-> FALSE, lookup |-> api]
            ELSE IF ~remote.has_name
            THEN [valid |-> FALSE, error |-> "URL does not point to a valid repository",
                  warned |-> FALSE, lookup |-> api]
            ELSE [valid |-> TRUE, error |-> None, warned |-> FALSE, lookup |-> api]

\* validators.validate_github_url (scrape.validate_github_url is the same code).
\* lookup is the owner/repo the existence check is issued for (None: no
\* request is made); warned tells whether the warning line is printed.
validate_github_url(url, remote) ==
    LET m == match_pattern(url)
    IN  IF ~m.matched
        THEN [valid |-> FALSE, error |-> "Invalid GitHub URL format",
              warned |-> FALSE, lookup |-> NoLookup]
        ELSE
        LET repo == RStrip(m.repo, {".", "g", "i", "t"})
            api  == <<m.username, repo>>
        IN  IF remote.kind = "exception"
            THEN [valid |-> FALSE, error |-> "Network error checking repository",
                  warned |-> FALSE, lookup |-> api]
            ELSE IF remote.status_code = 404
            THEN [valid |-> FALSE, error |-> "Repository not found",
                  warned |-> FALSE, lookup |-> api]
            ELSE IF remote.status_code = 403
            THEN [valid |-> TRUE, error |-> None, warned |-> TRUE, lookup |-> api]
            ELSE IF remote.status_code # 200
            THEN [valid |-> FALSE, error |-> "Could not verify repository",
                  warned |-> FALSE, lookup |-> api]
            ELSE IF ~remote.has_name
            THEN [valid |-> FALSE, error |-> "URL does not point to a valid repository",
                  warned |-> FALSE, lookup |-> api]
            ELSE [valid |-> TRUE, error |-> None, warned |-> FALSE, lookup |-> api]

(***************************************************************************)
(* The store: table hacks (devWeb.init_db).  id is INTEGER PRIMARY KEY     *)
(* AUTOINCREMENT; githubLink and place are nullable TEXT with no UNIQUE    *)
(* constraint.  A row keeps the columns the checked properties read.       *)
(***************************************************************************)
WINNER == <<"w", "i", "n", "n", "e", "r">>
CAP_WINNER == <<"W", "i", "n", "n", "e", "r">>
PARTICIPANT == <<"p", "a", "r", "t", "i", "c", "i", "p", "a", "n", "t">>

UpperSeq == <<"A", "B", "C", "D", "E", "F", "G", "H", "I", "J", "K", "L", "M",
              "N", "O", "P", "Q", "R", "S", "T", "U", "V", "W", "X", "Y", "Z">>
LowerSeq == <<"a", "b", "c", "d", "e", "f", "g", "h", "i", "j", "k", "l", "m",
              "n", "o", "p", "q", "r", "s", "t", "u", "v", "w", "x", "y", "z">>

\* SQL LOWER() / str.lower()
Lower(s) ==
    [i \in 1..Len(s) |->
        IF s[i] \in UpperCase
        THEN LowerSeq[CHOOSE k \in 1..Len(UpperSeq) : UpperSeq[k] = s[i]]
        ELSE s[i]]

\* WHERE LOWER(place) LIKE '%winner%': NULL place makes the predicate NULL,
\* and the row is not selected
IsWinner(r) == r.place # NULL /\ Contains(Lower(r.place), WINNER)

\* WHERE LOWER(place) NOT LIKE '%winner%': NULL place is not selected either
IsParticipant(r) == r.place # NULL /\ ~Contains(Lower(r.place), WINNER)

\* the rows get_participants selects, before ORDER BY and LIMIT
ParticipantRows(db) == {r \in db : IsParticipant(r)}

\* get_database_stats: the two counts
get_database_stats(db) ==
    [total_projects |-> Cardinality(db),
     total_winners  |-> Cardinality({r \in db : IsWinner(r)})]

\* main.get_stats: GET /api/stats
get_stats(db) ==
    LET stats == get_database_stats(db)
    IN  [total_projects     |-> stats.total_projects,
         total_winners      |-> stats.total_winners,
         total_participants |-> stats.total_projects - stats.total_winners]

\* SELECT id, name FROM hacks WHERE githubLink = ?
RowsByLink(db, github_url) == {r \in db : r.githubLink = github_url}

\* the duplicate check comparing the wrong column
existing_by_name(db, github_url) == {r \in db : r.name = github_url}

\* auto_insert_hack, lines 69-70: the rows its duplicate check may fetch
existing(db, github_url) == {r \in db : r.githubLink = github_url}

\* SELECT id, name FROM hacks WHERE id = ?
RowsById(db, project_id) == {r \in db : r.id = project_id}

\* check_duplicate_project: every result fetchone() may give.  The SELECT has
\* no ORDER BY, so with several matching rows any of them may come first.
check_duplicate_project(db, github_url) ==
    IF RowsByLink(db, github_url) = {}
    THEN {<<FALSE, NoId, NULL>>}
    ELSE {<<TRUE, r.id, r.name>> : r \in RowsByLink(db, github_url)}

\* DELETE FROM hacks WHERE name = ? (the wrong key)
DeleteRowsByName(db, project_id) ==
    {r \in db : \A d \in RowsById(db, project_id) : r.name # d.name}

\* DELETE FROM hacks WHERE id = ?
DeleteRows(db, project_id) == {r \in db : r.id # project_id}

\* the keys auto_insert_hack reads from the parsed answer
NAME == <<"n", "a", "m", "e">>
FRAMEWORK == <<"f", "r", "a", "m", "e", "w", "o", "r", "k">>
TOPIC == <<"t", "o", "p", "i", "c">>
DESCRIPTIONS == <<"d", "e", "s", "c", "r", "i", "p", "t", "i", "o", "n", "s">>
AI_SCORE == <<"a", "i", "_", "s", "c", "o", "r", "e">>
AI_REASONING == <<"a", "i", "_", "r", "e", "a", "s", "o", "n", "i", "n", "g">>
DataKeys == {NAME, FRAMEWORK, TOPIC, DESCRIPTIONS, AI_SCORE, AI_REASONING}

\* the decimal digits of a natural number
RECURSIVE NatText(_)
NatText(n) ==
    IF n < 10 THEN <<DigitSeq[n + 1]>>
    ELSE NatText(n \div 10) \o <<DigitSeq[(n % 10) + 1]>>

\* the fraction digits of m at the given scale, leading zeros kept
RECURSIVE FractionText(_, _)
FractionText(m, sc) ==
    IF sc = 0 THEN <<>>
    ELSE FractionText(m \div 10, sc - 1) \o <<DigitSeq[(m % 10) + 1]>>

\* a number in text form: 42 is "42", 7.5 is "7.5"
NumberText(v) ==
    (IF v.num < 0 THEN <<"-">> ELSE <<>>) \o
    NatText((IF v.num < 0 THEN -v.num ELSE v.num) \div Pow10(v.scale)) \o
    (IF v.scale = 0 THEN <<>>
     ELSE <<".">> \o FractionText((IF v.num < 0 THEN -v.num ELSE v.num) % Pow10(v.scale),
                                 v.scale))

\* what a TEXT column holds once value v is bound to it: a string as it is,
\* None as NULL, a number in text form
StoreText(v) ==
    IF v.kind = "null" THEN NULL
    ELSE IF v.kind = "string" THEN v.text
    ELSE NumberText(v)

\* a float with the given digits, at least one of them behind the point and
\* no trailing zero behind the first
RECURSIVE Real(_, _)
Real(m, sc) ==
    IF sc = 0 THEN JNum(m * 10, 1)
    ELSE IF sc > 1 /\ m % 10 = 0 THEN Real(m \div 10, sc - 1)
    ELSE JNum(m, sc)

\* the text is a number from end to end
LooksNumeric(text) ==
    /\ text # <<>>
    /\ text[1] \in Digits \cup {"-"}
    /\ ParseNumber(text, 1).ok
    /\ ParseNumber(text, 1).next = Len(text) + 1

\* what column ai_score (FLOAT) holds once value v is bound to it: a number as
\* a float, a string that reads as a number as that float, any other string
\* as text, None as NULL
StoreReal(v) ==
    IF v.kind = "null" THEN JNull
    ELSE IF v.kind = "number" THEN Real(v.num, v.scale)
    ELSE IF LooksNumeric(v.text)
    THEN Real(ParseNumber(v.text, 1).value.num, ParseNumber(v.text, 1).value.scale)
    ELSE v

\* the INSERT with the values of topic and framework bound in each other's place
NewRowSwapped(id, data, github_url, status) ==
    [id           |-> id,
     name         |-> StoreText(GetKey(data, NAME)),
     framework    |-> StoreText(GetKey(data, TOPIC)),
     githubLink   |-> github_url,
     place        |-> status,
     topic        |-> StoreText(GetKey(data, FRAMEWORK)),
     descriptions |-> StoreText(GetKey(data, DESCRIPTIONS)),
     ai_score     |-> StoreReal(GetKey(data, AI_SCORE)),
     ai_reasoning |-> StoreText(GetKey(data, AI_REASONING))]

\* the row INSERT INTO hacks (...) VALUES (...) adds, with the id the store assigns
NewRow(id, data, github_url, status) ==
    [id           |-> id,
     name         |-> StoreText(GetKey(data, NAME)),
     framework    |-> StoreText(GetKey(data, FRAMEWORK)),
     githubLink   |-> github_url,
     place        |-> status,
     topic        |-> StoreText(GetKey(data, TOPIC)),
     descriptions |-> StoreText(GetKey(data, DESCRIPTIONS)),
     ai_score     |-> StoreReal(GetKey(data, AI_SCORE)),
     ai_reasoning |-> StoreText(GetKey(data, AI_REASONING))]

\* data['name'] can be read: the answer parsed to a dict that has the key
HasName(data) == HasKey(data, NAME)

\* every key lines 128-134 read is there
HasAllKeys(data) == \A key \in DataKeys : HasKey(data, key)

\* the INSERT is rejected by the table: column name is NOT NULL
ViolatesNotNull(data) == GetKey(data, NAME).kind = "null"

(***************************************************************************)
(* The filtered reads of database.py and of database_snowflake.py.  Each   *)
(* is one SELECT ... WHERE ... ORDER BY ai_score DESC LIMIT ?; its result   *)
(* is the list fetchall() returns.  Rows that ORDER BY does not tell apart *)
(* may come in any order, so a read is modelled by the set of lists it     *)
(* may return.  The texts drawn are ASCII, on which str.lower() and SQL     *)
(* LOWER() agree; limits are not negative.                                 *)
(***************************************************************************)

\* text LIKE pattern: % matches any run of characters, _ any one character
RECURSIVE Like(_, _)
Like(text, pattern) ==
    IF pattern = <<>> THEN text = <<>>
    ELSE IF Head(pattern) = "%"
    THEN Like(text, Tail(pattern)) \/ (text # <<>> /\ Like(Tail(text), pattern))
    ELSE /\ text # <<>>
         /\ (Head(pattern) = "_" \/ Head(pattern) = Head(text))
         /\ Like(Tail(text), Tail(pattern))

\* f'%{term.lower()}%'
LikePattern(term) == <<"%">> \o Lower(term) \o <<"%">>

\* LOWER(col) LIKE pattern and LOWER(col) NOT LIKE pattern: NULL in col makes
\* either NULL, and the row is not selected
LowerLike(col, pattern) == col # NULL /\ Like(Lower(col), pattern)
LowerNotLike(col, pattern) == col # NULL /\ ~Like(Lower(col), pattern)

\* s.split(sep)[0]
FirstPart(s, sep) == IF Contains(s, sep) THEN Slice(s, 0, Find(s, sep, 0)) ELSE s

\* framework.split(",")[0].split("/")[0].strip()
framework_key(framework) == Strip(FirstPart(FirstPart(framework, <<",">>), <<"/">>))

\* the columns the reads select
Row6(r) == <<r.name, r.framework, r.topic, r.descriptions, r.ai_score, r.ai_reasoning>>
Row7(r) == <<r.name, r.framework, r.topic, r.descriptions, r.ai_score, r.ai_reasoning,
             r.githubLink>>

\* ORDER BY ai_score in SQLite: NULL sorts below every number and every
\* number below every text (two texts are left as a tie)
StorageClass(v) == IF v.kind = "null" THEN 0 ELSE IF v.kind = "number" THEN 1 ELSE 2
SqliteLess(a, b) ==
    \/ StorageClass(a) < StorageClass(b)
    \/ a.kind = "number" /\ b.kind = "number" /\ NumLess(a, b)

\* ORDER BY ai_score in Snowflake: NULL sorts above every number
SnowflakeLess(a, b) ==
    \/ a.kind = "number" /\ b.kind = "null"
    \/ a.kind = "number" /\ b.kind = "number" /\ NumLess(a, b)

\* LIMIT n on a selection of the given size
Limited(n, size) == IF n < size THEN n ELSE size

\* the lists ORDER BY ai_score DESC LIMIT limit may give for the selected rows
SqliteOrdered(rows, limit) ==
    {q \in [1..Limited(limit, Cardinality(rows)) -> rows] :
        /\ \A i, j \in DOMAIN q : i < j => q[i] # q[j] /\ ~SqliteLess(q[i].ai_score, q[j].ai_score)
        /\ \A r \in rows : (\A i \in DOMAIN q : q[i] # r) =>
               \A i \in DOMAIN q : ~SqliteLess(q[i].ai_score, r.ai_score)}

SnowflakeOrdered(rows, limit) ==
    {q \in [1..Limited(limit, Cardinality(rows)) -> rows] :
        /\ \A i, j \in DOMAIN q : i < j =>
               q[i] # q[j] /\ ~SnowflakeLess(q[i].ai_score, q[j].ai_score)
        /\ \A r \in rows : (\A i \in DOMAIN q : q[i] # r) =>
               \A i \in DOMAIN q : ~SnowflakeLess(q[i].ai_score, r.ai_score)}

\* the WHERE clauses
WinnersByCategoryRows(db, category) ==
    {r \in db : IsWinner(r) /\ LowerLike(r.topic, LikePattern(category))}
WinnersExcludingCategoryRows(db, category) ==
    {r \in db : IsWinner(r) /\ LowerNotLike(r.topic, LikePattern(category))}
WinnersByFrameworkRows(db, framework) ==
    {r \in db : IsWinner(r) /\ LowerLike(r.framework, LikePattern(framework_key(framework)))}
WinnerRows(db) == {r \in db : IsWinner(r)}

\* database.py
get_winners_by_category(db, category, limit) ==
    {[k \in DOMAIN q |-> Row6(q[k])] :
        q \in SqliteOrdered(WinnersByCategoryRows(db, category), limit)}
get_winners_excluding_category(db, category, limit) ==
    {[k \in DOMAIN q |-> Row6(q[k])] :
        q \in SqliteOrdered(WinnersExcludingCategoryRows(db, category), limit)}
get_participants(db, limit) ==
    {[k \in DOMAIN q |-> Row6(q[k])] : q \in SqliteOrdered(ParticipantRows(db), limit)}
get_winners_by_framework(db, framework, limit) ==
    {[k \in DOMAIN q |-> Row6(q[k])] :
        q \in SqliteOrdered(WinnersByFrameworkRows(db, framework), limit)}
get_top_winners(db, limit) ==
    {[k \in DOMAIN q |-> Row6(q[k])] : q \in SqliteOrdered(WinnerRows(db), limit)}

\* database_snowflake.py
snowflake_get_winners_by_category(db, category, limit) ==
    {[k \in DOMAIN q |-> Row7(q[k])] :
        q \in SnowflakeOrdered(WinnersByCategoryRows(db, category), limit)}
snowflake_get_winners_excluding_category(db, category, limit) ==
    {[k \in DOMAIN q |-> Row6(q[k])] :
        q \in SnowflakeOrdered(WinnersExcludingCategoryRows(db, category), limit)}
snowflake_get_participants(db, limit) ==
    {[k \in DOMAIN q |-> Row6(q[k])] : q \in SnowflakeOrdered(ParticipantRows(db), limit)}
snowflake_get_winners_by_framework(db, framework, limit) ==
    {[k \in DOMAIN q |-> Row7(q[k])] :
        q \in SnowflakeOrdered(WinnersByFrameworkRows(db, framework), limit)}
snowflake_get_top_winners(db, limit) ==
    {[k \in DOMAIN q |-> Row7(q[k])] : q \in SnowflakeOrdered(WinnerRows(db), limit)}

\* database_snowflake.check_duplicate_project and get_database_stats: the
\* statements of database.py against table HACKS
snowflake_check_duplicate_project(db, github_url) ==
    IF RowsByLink(db, github_url) = {}
    THEN {<<FALSE, NoId, NULL>>}
    ELSE {<<TRUE, r.id, r.name>> : r \in RowsByLink(db, github_url)}
snowflake_get_database_stats(db) ==
    [total_projects |-> Cardinality(db),
     total_winners  |-> Cardinality({r \in db : IsWinner(r)})]

(***************************************************************************)
(* Requests.  Each request p runs one handler: POST /api/insert           *)
(* (main.insert_project calling auto_insert_hack) or DELETE               *)
(* /api/projects/{id} (main.delete_project calling delete_by_id).  A       *)
(* handler is a sequence of steps separated by its network and store      *)
(* round trips.  The table is a file shared by every process that opens    *)
(* it (server workers, the command-line script), each step opens its own   *)
(* connection and no lock or transaction spans two steps, so steps of      *)
(* different requests interleave.                                          *)
(***************************************************************************)
Procs == {"r1", "r2"}

ACME == <<"a", "c", "m", "e">>
WIDGET == <<"w", "i", "d", "g", "e", "t">>

URL_WIDGET == HTTPS \o GITHUB \o ACME \o <<"/">> \o WIDGET
URL_WIDGET_ALT == HTTP \o WWW \o GITHUB \o ACME \o <<"/">> \o WIDGET \o DOT_GIT \o <<"/">>
URL_MALFORMED == HTTPS \o GITHUB \o ACME

\* the URLs and status labels requests submit, and what the existence check
\* answers them
Urls == {URL_WIDGET, URL_WIDGET_ALT, URL_MALFORMED}
Statuses == {WINNER, PARTICIPANT}
Remotes == {r \in RemoteOutcomes :
               r.kind = "response" /\ r.has_name /\ r.status_code \in {200, 403, 404}}

\* the text of a JSON object with the six members, each value given as text
Quoted(text) == <<"\"">> \o text \o <<"\"">>
Member(key, value_text) == Quoted(key) \o <<":">> \o value_text
AnswerText(name, framework, topic, descriptions, ai_score, ai_reasoning) ==
    <<"{">> \o Member(NAME, name) \o <<",">> \o Member(FRAMEWORK, framework)
    \o <<",", " ">> \o Member(TOPIC, topic) \o <<",">>
    \o Member(DESCRIPTIONS, descriptions) \o <<",", "\n">>
    \o Member(AI_SCORE, ai_score) \o <<",">> \o Member(AI_REASONING, ai_reasoning)
    \o <<"}">>

\* what generate_content may produce: an exception, or an answer text.  The
\* answers: the object asked for; one inside a json fence whose score lies
\* above the scale; prose; an object without the keys; an object whose name
\* is a number and whose score is a string; an object whose name is null.
ANSWER_RAW ==
    AnswerText(Quoted(<<"x">>), Quoted(<<"f">>), Quoted(<<"t">>), Quoted(<<"d">>),
               <<"7", ".", "5">>, Quoted(<<"r">>))
ANSWER_FENCED ==
    FENCE_JSON \o <<"\n">> \o
    AnswerText(Quoted(<<"y">>), Quoted(<<"f">>), <<"n", "u", "l", "l">>, Quoted(<<"d">>),
               <<"1", "1">>, Quoted(<<"r">>))
    \o <<"\n">> \o FENCE
ANSWER_PROSE == <<"o", "k">>
ANSWER_EMPTY == <<"{", "}">>
ANSWER_TYPES ==
    AnswerText(<<"4", "2">>, Quoted(<<"f">>), Quoted(<<"t">>), Quoted(<<"d">>),
               Quoted(<<"7", ".", "5">>), Quoted(<<"r">>))
ANSWER_NULL_NAME ==
    AnswerText(<<"n", "u", "l", "l">>, Quoted(<<"f">>), Quoted(<<"t">>), Quoted(<<"d">>),
               <<"3">>, Quoted(<<"r">>))
AnswerTexts == {ANSWER_RAW, ANSWER_FENCED, ANSWER_PROSE, ANSWER_EMPTY,
                ANSWER_TYPES, ANSWER_NULL_NAME}
ModelOutcomes ==
    {[kind |-> "exception", text |-> NULL]} \cup
    {[kind |-> "text", text |-> t] : t \in AnswerTexts}

\* lines 109-123 applied to each answer text, and line 61 applied to each
\* submitted URL and lookup outcome: the results the calls below read
ParsedAnswers == [t \in AnswerTexts |-> parse_json_response(t)]
Verdicts == [url \in Urls |-> [remote \in Remotes |-> validate_github_url(url, remote)]]

NoResult == [success |-> FALSE, project_name |-> NULL]
NoRead == [duplicate |-> {}, lists |-> <<>>,
           stats |-> [total_projects |-> 0, total_winners |-> 0]]
NoResponse == [status_code |-> 0, success |-> FALSE, message |-> None]

\* the locals of a handler before it runs
FreshLoc ==
    [op            |-> "none",
     github_url    |-> <<>>,
     status        |-> <<>>,
     response_text |-> NULL,       \* the model's answer
     data          |-> NoData,      \* the parsed model answer
     model_calls   |-> 0,          \* generate_content calls of this call
     remote_checks |-> 0,          \* requests.get calls of this call
     dup_checks    |-> 0,          \* duplicate-check SELECTs of this call
     inserts       |-> 0,          \* INSERT statements of this call
     outcome       |-> "pending",  \* "True", "False", or "raised"
     error         |-> None,       \* the exception raised, or the failure printed
     stored        |-> 0,          \* id of the row this call inserted
     project_id    |-> 0,
     project_name  |-> NULL,
     result        |-> NoResult,   \* delete_by_id's return value
     read          |-> NoRead,     \* what a read-only operation fetched
     response      |-> NoResponse, \* what the endpoint answers
     dup_at_start  |-> FALSE,      \* a row with github_url existed when the call began
     deleted_after |-> FALSE]      \* a row was deleted after the call returned

\* a request slot is free: no handler is running in it
Idle(p) == pc[p] \in {"idle", "done"}

\* main.insert_project catching the exception and answering like a duplicate
insert_project_swallow(outcome) ==
    IF outcome = "True"
    THEN [status_code |-> 200, success |-> TRUE, message |-> "Project successfully added"]
    ELSE [status_code |-> 200, success |-> FALSE,
          message |-> "Duplicate project - already exists in database"]

\* main.insert_project: the answer of POST /api/insert
insert_project(outcome) ==
    IF outcome = "raised"
    THEN [status_code |-> 500, success |-> FALSE, message |-> None]
    ELSE IF outcome = "True"
    THEN [status_code |-> 200, success |-> TRUE, message |-> "Project successfully added"]
    ELSE [status_code |-> 200, success |-> FALSE,
          message |-> "Duplicate project - already exists in database"]

\* main.delete_project answering 200 whatever delete_by_id returned
delete_project_always_200(result) ==
    [status_code |-> 200, success |-> result.success, message |-> None]

\* main.delete_project: the answer of DELETE /api/projects/{id}
delete_project(result) ==
    IF ~result.success
    THEN [status_code |-> 404, success |-> FALSE, message |-> "not found"]
    ELSE [status_code |-> 200, success |-> TRUE, message |-> None]

\* the end of an auto_insert_hack call, with what the endpoint answers
Finish(l, outcome, error) ==
    [l EXCEPT !.outcome = outcome, !.error = error,
              !.response = insert_project(outcome)]

\* a delete is noted by every request whose insert has returned True
NoteDelete(p, l) ==
    [q \in Procs |->
        IF q = p THEN l
        ELSE IF pc[q] = "done" /\ loc[q].outcome = "True"
             THEN [loc[q] EXCEPT !.deleted_after = TRUE]
        ELSE loc[q]]

\* the insert calls under way
Inserting == {q \in Procs : pc[q] \in {"dupcheck", "model", "insert"}}

\* auto_insert_hack, lines 60-64: validate the URL.  A call begins only while
\* the calls under way leave the table within MaxRows ids.
InsertValidate(p) ==
    /\ Idle(p)
    /\ nextId + Cardinality(Inserting) <= MaxRows
    /\ \E url \in Urls, status \in Statuses, remote \in Remotes :
        LET v == Verdicts[url][remote]
            l == [FreshLoc EXCEPT !.op = "insert", !.github_url = url,
                                  !.status = status,
                                  !.remote_checks =
                                      IF v.lookup = NoLookup THEN 0 ELSE 1,
                                  !.dup_at_start =
                                      (\E r \in hacks : r.githubLink = url)]
        IN  IF v.valid
            THEN /\ loc' = [loc EXCEPT ![p] = l]
                 /\ pc' = [pc EXCEPT ![p] = "dupcheck"]
            ELSE /\ loc' = [loc EXCEPT ![p] = Finish(l, "False", "Validation failed")]
                 /\ pc' = [pc EXCEPT ![p] = "done"]
    /\ UNCHANGED <<hacks, nextId, batch, probe>>

\* the duplicate check letting the call through whatever it found
InsertDupCheckSkipped(p) ==
    /\ pc[p] = "dupcheck"
    /\ pc' = [pc EXCEPT ![p] = "model"]
    /\ UNCHANGED <<loc, hacks, nextId, batch, probe>>

\* the duplicate check also turning down a URL that a call past the check is
\* about to insert
InsertDupCheckLocked(p) ==
    /\ pc[p] = "dupcheck"
    /\ IF \/ existing(hacks, loc[p].github_url) # {}
          \/ \E q \in Procs \ {p} : /\ pc[q] \in {"model", "insert"}
                                     /\ loc[q].github_url = loc[p].github_url
       THEN /\ loc' = [loc EXCEPT ![p] = Finish(loc[p], "False", "Duplicate detected")]
            /\ pc' = [pc EXCEPT ![p] = "done"]
       ELSE /\ pc' = [pc EXCEPT ![p] = "model"]
            /\ UNCHANGED loc
    /\ UNCHANGED <<hacks, nextId, batch, probe>>

\* auto_insert_hack, lines 66-75: the duplicate check
InsertDupCheck(p) ==
    /\ pc[p] = "dupcheck"
    /\ IF existing(hacks, loc[p].github_url) # {}
       THEN /\ loc' = [loc EXCEPT ![p] = Finish([@ EXCEPT !.dup_checks = @ + 1],
                                                "False", "Duplicate detected")]
            /\ pc' = [pc EXCEPT ![p] = "done"]
       ELSE /\ pc' = [pc EXCEPT ![p] = "model"]
            /\ loc' = [loc EXCEPT ![p].dup_checks = @ + 1]
    /\ UNCHANGED <<hacks, nextId, batch, probe>>

\* the model call tried a second time when the first one raised
InsertCallModelRetrying(p) ==
    /\ pc[p] = "model"
    /\ \E answer \in ModelOutcomes :
        LET called == [loc[p] EXCEPT !.model_calls = @ + 1,
                                     !.response_text = answer.text]
            data   == ParsedAnswers[answer.text]
        IN  IF answer.kind = "exception" /\ called.model_calls < 2
            THEN /\ loc' = [loc EXCEPT ![p] = called]
                 /\ UNCHANGED pc
            ELSE IF answer.kind = "exception" \/ ~data.ok \/ data.kind # "object"
                    \/ ~HasAllKeys(data)
            THEN /\ loc' = [loc EXCEPT ![p] = Finish(called, "raised", "APIError")]
                 /\ pc' = [pc EXCEPT ![p] = "done"]
            ELSE /\ loc' = [loc EXCEPT ![p] = [called EXCEPT !.data = data]]
                 /\ pc' = [pc EXCEPT ![p] = "insert"]
    /\ UNCHANGED <<hacks, nextId, batch, probe>>

\* auto_insert_hack, lines 77-123: call the model and parse its answer
InsertCallModel(p) ==
    /\ pc[p] = "model"
    /\ \E answer \in ModelOutcomes :
        LET called == [loc[p] EXCEPT !.model_calls = @ + 1,
                                     !.response_text = answer.text]
            data   == ParsedAnswers[answer.text]
        IN  IF answer.kind = "exception"
            THEN /\ loc' = [loc EXCEPT ![p] = Finish(called, "raised", "APIError")]
                 /\ pc' = [pc EXCEPT ![p] = "done"]
            ELSE IF ~data.ok
            THEN /\ loc' = [loc EXCEPT ![p] = Finish(called, "raised", "JSONDecodeError")]
                 /\ pc' = [pc EXCEPT ![p] = "done"]
            ELSE IF data.kind # "object"
            THEN /\ loc' = [loc EXCEPT ![p] = Finish(called, "raised", "TypeError")]
                 /\ pc' = [pc EXCEPT ![p] = "done"]
            ELSE IF ~HasAllKeys(data)
            THEN /\ loc' = [loc EXCEPT ![p] = Finish(called, "raised", "KeyError")]
                 /\ pc' = [pc EXCEPT ![p] = "done"]
            ELSE /\ loc' = [loc EXCEPT ![p] = [called EXCEPT !.data = data]]
                 /\ pc' = [pc EXCEPT ![p] = "insert"]
    /\ UNCHANGED <<hacks, nextId, batch, probe>>

\* the insert preceded by an UPDATE that sets the place of the stored rows
\* of the same name
InsertExecuteUpdating(p) ==
    /\ pc[p] = "insert"
    /\ IF ViolatesNotNull(loc[p].data)
       THEN /\ loc' = [loc EXCEPT ![p] = Finish(@, "raised", "IntegrityError")]
            /\ UNCHANGED <<hacks, nextId>>
       ELSE /\ hacks' =
                   {IF r.name = StoreText(GetKey(loc[p].data, NAME))
                    THEN [r EXCEPT !.place = loc[p].status] ELSE r : r \in hacks} \cup
                   {NewRow(nextId, loc[p].data, loc[p].github_url, loc[p].status)}
            /\ nextId' = nextId + 1
            /\ loc' = [loc EXCEPT ![p] =
                           Finish([@ EXCEPT !.stored = nextId], "True", None)]
    /\ pc' = [pc EXCEPT ![p] = "done"]
    /\ UNCHANGED <<batch, probe>>

\* auto_insert_hack, lines 125-138: INSERT, commit, return True.  The INSERT
\* raises when the table rejects the row (name is NOT NULL); nothing in
\* auto_insert_hack catches it.
InsertExecute(p) ==
    /\ pc[p] = "insert"
    /\ IF ViolatesNotNull(loc[p].data)
       THEN /\ loc' = [loc EXCEPT ![p] = Finish([@ EXCEPT !.inserts = @ + 1],
                                                "raised", "IntegrityError")]
            /\ UNCHANGED <<hacks, nextId>>
       ELSE /\ hacks' = hacks \cup
                   {NewRow(nextId, loc[p].data, loc[p].github_url, loc[p].status)}
            /\ nextId' = nextId + 1
            /\ loc' = [loc EXCEPT ![p] =
                           Finish([@ EXCEPT !.stored = nextId, !.inserts = @ + 1],
                                  "True", None)]
    /\ pc' = [pc EXCEPT ![p] = "done"]
    /\ UNCHANGED <<batch, probe>>

\* delete_by_id, lines 69-84: SELECT the row; not found returns the failure dict
DeleteSelect(p) ==
    /\ Idle(p)
    /\ \E project_id \in 1..MaxRows :
        LET l == [FreshLoc EXCEPT !.op = "delete", !.project_id = project_id]
        IN  IF RowsById(hacks, project_id) = {}
            THEN /\ loc' = [loc EXCEPT ![p] =
                        [l EXCEPT !.result = NoResult,
                                  !.response = delete_project(NoResult)]]
                 /\ pc' = [pc EXCEPT ![p] = "done"]
            ELSE /\ loc' = [loc EXCEPT ![p] =
                        [l EXCEPT !.project_name =
                            (CHOOSE r \in RowsById(hacks, project_id) : TRUE).name]]
                 /\ pc' = [pc EXCEPT ![p] = "del_exec"]
    /\ UNCHANGED <<hacks, nextId, batch, probe>>

\* delete_by_id, lines 86-95: DELETE, commit, return the success dict
DeleteExecute(p) ==
    /\ pc[p] = "del_exec"
    /\ hacks' = DeleteRows(hacks, loc[p].project_id)
    /\ LET result == [success |-> TRUE, project_name |-> loc[p].project_name]
       IN  loc' = NoteDelete(p, [loc[p] EXCEPT !.result = result,
                                               !.response = delete_project(result)])
    /\ pc' = [pc EXCEPT ![p] = "done"]
    /\ UNCHANGED <<nextId, batch, probe>>

NoBatch == [pc |-> "off"]
NoProbe == [fn |-> "none"]

\* the table after init_db, no request running
Init ==
    /\ hacks = {}
    /\ nextId = 1
    /\ pc = [p \in Procs |-> "idle"]
    /\ loc = [p \in Procs |-> FreshLoc]
    /\ batch = NoBatch
    /\ probe = NoProbe

Next ==
    \E p \in Procs :
        \/ InsertValidate(p)
        \/ InsertDupCheck(p)
        \/ InsertCallModel(p)
        \/ InsertExecute(p)
        \/ DeleteSelect(p)
        \/ DeleteExecute(p)

\* requests dispatched concurrently
Spec == Init /\ [][Next]_vars

\* no other request is running
Alone(p) == \A q \in Procs \ {p} : Idle(q)

NextSeq ==
    \E p \in Procs :
        \/ Alone(p) /\ InsertValidate(p)
        \/ InsertDupCheck(p)
        \/ InsertCallModel(p)
        \/ InsertExecute(p)
        \/ Alone(p) /\ DeleteSelect(p)
        \/ DeleteExecute(p)

\* requests served one after the other
SpecSeq == Init /\ [][NextSeq]_vars

(***************************************************************************)
(* The read-only operations: the duplicate check, the five filtered reads, *)
(* GET /api/stats, POST /api/trends and POST /api/analyze-project.  Each   *)
(* is one step here: what it fetched is kept as the sets of results its    *)
(* statements may give, and the text the model writes from them is left    *)
(* out.                                                                    *)
(***************************************************************************)

\* find_trends_with_gemini, lines 417-426: what it fetches for the category
find_trends_with_gemini(db, user_category) ==
    [NoRead EXCEPT
        !.lists = <<get_winners_by_category(db, user_category, 10),
                    get_winners_excluding_category(db, user_category, 10),
                    get_participants(db, 5)>>,
        !.stats = get_database_stats(db)]

\* analyze_project_for_hackathon, lines 255-274: what it fetches for the
\* framework and the topic the model named
analyze_project_for_hackathon(db, user_framework, user_topic) ==
    [NoRead EXCEPT
        !.lists = <<get_winners_by_framework(db, Lower(user_framework), 5),
                    get_winners_by_category(db, Lower(user_topic), 5),
                    get_top_winners(db, 5)>>,
        !.stats = get_database_stats(db)]

\* a term a caller searches for
ReadTerms == {<<"t">>, <<"F">>}

\* the read-only operations on table db, each with what it fetches
ReadOperations(db, github_url, term, limit) ==
    {[op |-> "check_duplicate_project",
      read |-> [NoRead EXCEPT !.duplicate = check_duplicate_project(db, github_url)]],
     [op |-> "get_winners_by_category",
      read |-> [NoRead EXCEPT !.lists = <<get_winners_by_category(db, term, limit)>>]],
     [op |-> "get_winners_excluding_category",
      read |-> [NoRead EXCEPT
                   !.lists = <<get_winners_excluding_category(db, term, limit)>>]],
     [op |-> "get_participants",
      read |-> [NoRead EXCEPT !.lists = <<get_participants(db, limit)>>]],
     [op |-> "get_winners_by_framework",
      read |-> [NoRead EXCEPT !.lists = <<get_winners_by_framework(db, term, limit)>>]],
     [op |-> "get_top_winners",
      read |-> [NoRead EXCEPT !.lists = <<get_top_winners(db, limit)>>]],
     [op |-> "get_stats",
      read |-> [NoRead EXCEPT !.stats = get_database_stats(db)]],
     [op |-> "find_trends_with_gemini", read |-> find_trends_with_gemini(db, term)],
     [op |-> "analyze_project_for_hackathon",
      read |-> analyze_project_for_hackathon(db, term, term)]}

\* one read-only operation, from its call to its return
ReadOnly(p) ==
    /\ Idle(p)
    /\ \E github_url \in Urls, term \in ReadTerms, limit \in 0..MaxLimit :
        \E operation \in ReadOperations(hacks, github_url, term, limit) :
            loc' = [loc EXCEPT ![p] = [FreshLoc EXCEPT !.op = operation.op,
                                                       !.read = operation.read]]
    /\ pc' = [pc EXCEPT ![p] = "done"]
    /\ UNCHANGED <<hacks, nextId, batch, probe>>

\* the client whose operations follow one another
CLIENT == "r1"

NextOps ==
    \/ InsertValidate(CLIENT)
    \/ InsertDupCheck(CLIENT)
    \/ InsertCallModel(CLIENT)
    \/ InsertExecute(CLIENT)
    \/ DeleteSelect(CLIENT)
    \/ DeleteExecute(CLIENT)
    \/ ReadOnly(CLIENT)

\* any sequence of inserts, deletes and read-only operations
SpecOps == Init /\ [][NextOps]_vars

\* the same, with every step of a call that has begun taken in the end: the
\* handler is straight-line code, and each external call it waits for
\* returns or fails
SpecOpsFair ==
    /\ SpecOps
    /\ WF_vars(InsertDupCheck(CLIENT))
    /\ WF_vars(InsertCallModel(CLIENT))
    /\ WF_vars(InsertExecute(CLIENT))
    /\ WF_vars(DeleteExecute(CLIENT))

(***************************************************************************)
(* batch_insert_from_file: a script that reads a file of lines             *)
(* "url[, status]" and calls auto_insert_hack for each, one after the      *)
(* other.                                                                  *)
(***************************************************************************)

\* auto_insert_hack run from its first line to its return or raise, on table
\* db with next id nid, given what the existence check and the model produce
auto_insert_hack(db, nid, github_url, status, remote, answer) ==
    LET v    == Verdicts[github_url][remote]
        data == ParsedAnswers[answer.text]
        stop(outcome, error) ==
            [outcome |-> outcome, error |-> error, db |-> db, nid |-> nid]
    IN  IF ~v.valid THEN stop("False", "Validation failed")
        ELSE IF existing(db, github_url) # {} THEN stop("False", "Duplicate detected")
        ELSE IF answer.kind = "exception" THEN stop("raised", "APIError")
        ELSE IF ~data.ok THEN stop("raised", "JSONDecodeError")
        ELSE IF data.kind # "object" THEN stop("raised", "TypeError")
        ELSE IF ~HasAllKeys(data) THEN stop("raised", "KeyError")
        ELSE IF ViolatesNotNull(data) THEN stop("raised", "IntegrityError")
        ELSE [outcome |-> "True", error |-> None,
              db |-> db \cup {NewRow(nid, data, github_url, status)},
              nid |-> nid + 1]

COMMA == <<",">>
HASH == <<"#">>

\* the lines a batch file is made of
LINE_WIDGET_WINNER == URL_WIDGET \o <<",", " ">> \o WINNER
LINE_ALT_PLAIN == URL_WIDGET_ALT
LINE_MALFORMED == URL_MALFORMED \o <<",">> \o PARTICIPANT
LINE_COMMENT == HASH \o <<" ">> \o URL_WIDGET
LINE_BLANK == <<" ">>
LINE_TWO_COMMAS == URL_WIDGET_ALT \o <<" ", ",">> \o WINNER \o <<",", "2">>
LineTexts == {LINE_WIDGET_WINNER, LINE_ALT_PLAIN, LINE_MALFORMED,
              LINE_COMMENT, LINE_BLANK, LINE_TWO_COMMAS}

\* lines 166-177 with the status left as it stands behind the comma
ParseLineUntrimmed(line, default_status) ==
    IF Contains(line, COMMA)
    THEN LET cut == Find(line, COMMA, 0)
         IN  [github_url |-> Strip(Slice(line, 0, cut)),
              status     |-> Slice(line, cut + 1, Len(line))]
    ELSE [github_url |-> line, status |-> default_status]

\* lines 166-177: the url and the status a line gives (NULL: default_status
\* is None and the line has no status)
ParseLine(line, default_status) ==
    IF Contains(line, COMMA)
    THEN LET cut == Find(line, COMMA, 0)
         IN  [github_url |-> Strip(Slice(line, 0, cut)),
              status     |-> Strip(Slice(line, cut + 1, Len(line)))]
    ELSE [github_url |-> line, status |-> default_status]

\* lines 186-188: success_count += 1 follows every call that did not raise
CountSuccess(outcome) == IF outcome = "raised" THEN 0 ELSE 1

\* lines 179-182: a line without a status is put on the failure list
BatchNoStatus(next, github_url) ==
    [next EXCEPT !.failed = Append(@, <<github_url, "No status">>),
                 !.unstored = Append(@, github_url)]

\* lines 186-191: the counters after the call for one line ended as r.  stored
\* and unstored note, for the properties, the processed lines whose call
\* stored a row and those whose call did not (or that had no status); seen
\* notes the index of every line that got past the skip of line 167, calls
\* the index of every line auto_insert_hack was called for, args the url and
\* the status it was called with.
BatchAfterCall(next, github_url, r) ==
    [next EXCEPT
        !.success_count = @ + CountSuccess(r.outcome),
        !.failed = IF r.outcome = "raised"
                   THEN Append(@, <<github_url, r.error>>) ELSE @,
        !.stored = IF r.outcome = "True" THEN Append(@, github_url) ELSE @,
        !.unstored = IF r.outcome # "True" THEN Append(@, github_url) ELSE @]

\* the call for one line with no except clause around it: a raise leaves the
\* loop
BatchCallAborting(next, github_url, r) ==
    /\ hacks' = r.db
    /\ nextId' = r.nid
    /\ batch' = IF r.outcome = "raised"
                THEN [BatchAfterCall(next, github_url, r) EXCEPT
                         !.i = Len(batch.lines) + 1]
                ELSE BatchAfterCall(next, github_url, r)

\* lines 184-191: the call for one line, and the table it leaves
BatchCall(next, github_url, r) ==
    /\ hacks' = r.db
    /\ nextId' = r.nid
    /\ batch' = BatchAfterCall(next, github_url, r)

\* lines 170-191: a line that is neither blank nor a comment
BatchEntry(next, f) ==
    IF f.status = NULL \/ f.status = <<>>
    THEN /\ batch' = BatchNoStatus(next, f.github_url)
         /\ UNCHANGED <<hacks, nextId>>
    ELSE \E remote \in Remotes, answer \in ModelOutcomes :
            BatchCall([next EXCEPT !.calls = Append(@, batch.i),
                                   !.args = Append(@, <<f.github_url, f.status>>)],
                      f.github_url,
                      auto_insert_hack(hacks, nextId, f.github_url, f.status,
                                       remote, answer))

\* lines 165-168: one turn of the loop over the lines
BatchTurn(line, next) ==
    IF line = <<>> \/ StartsWith(line, HASH)
    THEN /\ batch' = next
         /\ UNCHANGED <<hacks, nextId>>
    ELSE BatchEntry([next EXCEPT !.seen = Append(@, batch.i)],
                    ParseLine(line, batch.default_status))

BatchLine ==
    /\ batch.pc = "run"
    /\ batch.i <= Len(batch.lines)
    /\ BatchTurn(Strip(batch.lines[batch.i]), [batch EXCEPT !.i = @ + 1])
    /\ UNCHANGED <<pc, loc, probe>>

\* lines 193-198: the summary, printed after the last line
BatchSummary ==
    /\ batch.pc = "run"
    /\ batch.i > Len(batch.lines)
    /\ batch' = [batch EXCEPT !.pc = "done"]
    /\ UNCHANGED <<hacks, nextId, pc, loc, probe>>

\* lines 156-161: an existing file of up to MaxLines lines, read into an
\* empty table, with or without a default status
InitBatch ==
    /\ hacks = {}
    /\ nextId = 1
    /\ pc = [p \in Procs |-> "idle"]
    /\ loc = [p \in Procs |-> FreshLoc]
    /\ probe = NoProbe
    /\ \E lines \in SeqsUpTo(LineTexts, MaxLines), default_status \in {NULL, WINNER} :
        batch = [pc |-> "run", lines |-> lines, default_status |-> default_status,
                 i |-> 1, success_count |-> 0, failed |-> <<>>,
                 stored |-> <<>>, unstored |-> <<>>,
                 seen |-> <<>>, calls |-> <<>>, args |-> <<>>]

NextBatch == BatchLine \/ BatchSummary

SpecBatch == InitBatch /\ [][NextBatch]_vars

(***************************************************************************)
(* Pure functions, applied to inputs drawn from bounded sets: probe holds  *)
(* the input and, once the function has been applied, its result.          *)
(***************************************************************************)
Quiet ==
    /\ nextId = 1
    /\ pc = [p \in Procs |-> "idle"]
    /\ loc = [p \in Procs |-> FreshLoc]
    /\ batch = NoBatch

\* --- the model-response parser ---

\* the characters of a string value inside a model answer
ContentChars == {"a", BQ}

\* the JSON text of the object whose member name is the string c
ObjectText(c) == <<"{">> \o Member(NAME, Quoted(c)) \o <<"}">>

JSON_TAG == <<"j", "s", "o", "n">>

\* text wrapped in a markdown fence: an optional json tag, optional newlines
\* inside the fence, optional whitespace or prose around it
Wrappings ==
    {[tag |-> t, inner |-> w, before |-> b[1], after |-> b[2]] :
        t \in {<<>>, JSON_TAG},
        w \in {<<>>, <<"\n">>},
        b \in {<< <<>>, <<>> >>, << <<"\n">>, <<" ", "\n">> >>,
                << <<"a", "a", " ">>, <<" ", "a">> >>}}

Wrap(text, w) ==
    w.before \o FENCE \o w.tag \o w.inner \o text \o w.inner \o FENCE \o w.after

InitParse ==
    /\ Quiet
    /\ hacks = {}
    /\ \E c \in SeqsUpTo(ContentChars, MaxContent), w \in Wrappings :
        probe = [fn |-> "parse", content |-> c, raw |-> ObjectText(c),
                 fenced |-> Wrap(ObjectText(c), w), applied |-> FALSE,
                 of_raw |-> NoData, of_fenced |-> NoData]

ApplyParse ==
    /\ probe.fn = "parse" /\ ~probe.applied
    /\ probe' = [probe EXCEPT !.applied = TRUE,
                              !.of_raw = parse_json_response(probe.raw),
                              !.of_fenced = parse_json_response(probe.fenced)]
    /\ UNCHANGED <<hacks, nextId, pc, loc, batch>>

SpecParse == InitParse /\ [][ApplyParse]_vars

\* --- the fence stripping ---

\* the pieces of a model answer: fence markers, tagged and not, two values
\* and white space
Pieces == {FENCE, FENCE_JSON, <<"1">>, <<"2">>, <<" ">>}

RECURSIVE Joined(_)
Joined(pieces) == IF pieces = <<>> THEN <<>> ELSE Head(pieces) \o Joined(Tail(pieces))

InitFence ==
    /\ Quiet
    /\ hacks = {}
    /\ \E pieces \in SeqsUpTo(Pieces, MaxPieces) :
        probe = [fn |-> "fence", response_text |-> Joined(pieces), applied |-> FALSE,
                 text |-> <<>>, data |-> NoData]

ApplyFence ==
    /\ probe.fn = "fence" /\ ~probe.applied
    /\ probe' = [probe EXCEPT !.applied = TRUE,
                              !.text = strip_fence(probe.response_text),
                              !.data = parse_json_response(probe.response_text)]
    /\ UNCHANGED <<hacks, nextId, pc, loc, batch>>

SpecFence == InitFence /\ [][ApplyFence]_vars

\* --- the URL validator ---

OWNERS == {ACME, <<>>, <<"a", "!">>}
REPOS == {WIDGET, <<"d", "e", "m", "o">>, <<>>, <<"a", ".", "b">>}

\* candidate URLs, well-formed and not
CandidateUrls ==
    {scheme \o www \o host \o owner \o <<"/">> \o repo \o git \o slash :
        scheme \in {HTTP, HTTPS, FTP}, www \in {<<>>, WWW},
        host \in {GITHUB, GITLAB}, owner \in OWNERS, repo \in REPOS,
        git \in {<<>>, DOT_GIT}, slash \in {<<>>, <<"/">>}}
    \cup {URL_MALFORMED}

NoVerdict == [valid |-> FALSE, error |-> None, warned |-> FALSE, lookup |-> NoLookup]

InitValidate ==
    /\ Quiet
    /\ hacks = {}
    /\ \E url \in CandidateUrls, remote \in RemoteOutcomes :
        probe = [fn |-> "validate", url |-> url, remote |-> remote,
                 applied |-> FALSE, verdict |-> NoVerdict]

ApplyValidate ==
    /\ probe.fn = "validate" /\ ~probe.applied
    /\ probe' = [probe EXCEPT !.applied = TRUE,
                              !.verdict = validate_github_url(probe.url, probe.remote)]
    /\ UNCHANGED <<hacks, nextId, pc, loc, batch>>

SpecValidate == InitValidate /\ [][ApplyValidate]_vars

\* --- the statistics ---

\* the values column place may hold: NULL, the empty string, texts
Places == {NULL, <<>>, WINNER, CAP_WINNER, PARTICIPANT}

\* any table the schema allows with ids up to MaxStatRows
InitStats ==
    /\ Quiet
    /\ \E ids \in SUBSET (1..MaxStatRows) : \E place \in [ids -> Places] :
        hacks = {[id |-> i, name |-> <<"x">>, githubLink |-> URL_WIDGET,
                  place |-> place[i]] : i \in ids}
    /\ probe = [fn |-> "stats", applied |-> FALSE,
                stats |-> [total_projects |-> 0, total_winners |-> 0,
                           total_participants |-> 0],
                participants |-> 0]

ApplyStats ==
    /\ probe.fn = "stats" /\ ~probe.applied
    /\ probe' = [probe EXCEPT !.applied = TRUE,
                              !.stats = get_stats(hacks),
                              !.participants = Cardinality(ParticipantRows(hacks))]
    /\ UNCHANGED <<hacks, nextId, pc, loc, batch>>

SpecStats == InitStats /\ [][ApplyStats]_vars

(***************************************************************************)
(* The reads applied to a table: the rows are drawn from a few projects   *)
(* that differ in place, topic, framework and score, the term and the     *)
(* limit from small sets.                                                  *)
(***************************************************************************)
QueryProject(name, place, topic, framework, ai_score) ==
    [name |-> name, framework |-> framework, githubLink |-> URL_WIDGET,
     place |-> place, topic |-> topic, descriptions |-> <<"d">>,
     ai_score |-> ai_score, ai_reasoning |-> NULL]

AI == <<"a", "i">>
CAP_AI == <<"A", "I">>
GO == <<"g", "o">>

QueryProjects ==
    {QueryProject(<<"a">>, WINNER, AI, GO, Real(75, 1)),
     QueryProject(<<"b">>, CAP_WINNER, CAP_AI, <<"G", "o">>, Real(9, 0)),
     QueryProject(<<"c">>, WINNER, <<"m", "l">>, <<"j", "s">>, JNull),
     QueryProject(<<"d">>, PARTICIPANT, AI, GO, Real(3, 0)),
     QueryProject(<<"e">>, WINNER, NULL, NULL, Real(75, 1))}

\* a category or framework as a caller passes it
Terms == {AI, CAP_AI, <<"_">>, <<"m">>, <<"g", "o", ",", " ", "j", "s">>, <<>>}

QueryRow(i, project) ==
    [id |-> i, name |-> project.name, framework |-> project.framework,
     githubLink |-> project.githubLink, place |-> project.place,
     topic |-> project.topic, descriptions |-> project.descriptions,
     ai_score |-> project.ai_score, ai_reasoning |-> project.ai_reasoning]

NoReads ==
    [check_duplicate_project        |-> {},
     get_database_stats             |-> [total_projects |-> 0, total_winners |-> 0],
     get_winners_by_category        |-> {},
     get_winners_excluding_category |-> {},
     get_participants               |-> {},
     get_winners_by_framework       |-> {},
     get_top_winners                |-> {}]

InitQuery ==
    /\ Quiet
    /\ \E ids \in SUBSET (1..MaxStatRows) : \E project \in [ids -> QueryProjects] :
        hacks = {QueryRow(i, project[i]) : i \in ids}
    /\ \E term \in Terms : \E limit \in 0..MaxLimit :
        probe = [fn |-> "query", applied |-> FALSE, term |-> term, limit |-> limit,
                 sqlite |-> NoReads, snowflake |-> NoReads]

\* every read of the gateway, by either backend, on the same table with the
\* same arguments; each entry is the set of results the read may give
ApplyQuery ==
    /\ probe.fn = "query" /\ ~probe.applied
    /\ probe' =
        [probe EXCEPT
            !.applied = TRUE,
            !.sqlite =
                [check_duplicate_project |-> check_duplicate_project(hacks, URL_WIDGET),
                 get_database_stats |-> get_database_stats(hacks),
                 get_winners_by_category |->
                     get_winners_by_category(hacks, probe.term, probe.limit),
                 get_winners_excluding_category |->
                     get_winners_excluding_category(hacks, probe.term, probe.limit),
                 get_participants |-> get_participants(hacks, probe.limit),
                 get_winners_by_framework |->
                     get_winners_by_framework(hacks, probe.term, probe.limit),
                 get_top_winners |-> get_top_winners(hacks, probe.limit)],
            !.snowflake =
                [check_duplicate_project |->
                     snowflake_check_duplicate_project(hacks, URL_WIDGET),
                 get_database_stats |-> snowflake_get_database_stats(hacks),
                 get_winners_by_category |->
                     snowflake_get_winners_by_category(hacks, probe.term, probe.limit),
                 get_winners_excluding_category |->
                     snowflake_get_winners_excluding_category(hacks, probe.term,
                                                              probe.limit),
                 get_participants |-> snowflake_get_participants(hacks, probe.limit),
                 get_winners_by_framework |->
                     snowflake_get_winners_by_framework(hacks, probe.term, probe.limit),
                 get_top_winners |-> snowflake_get_top_winners(hacks, probe.limit)]]
    /\ UNCHANGED <<hacks, nextId, pc, loc, batch>>

SpecQuery == InitQuery /\ [][ApplyQuery]_vars

(***************************************************************************)
(* The related winners of analyze_project_for_hackathon                    *)
(* (gemini_client.py) and of analyzeProjectForHackathon (scrape.py), on    *)
(* tables drawn from a pool of winners: the odd ones use the framework     *)
(* searched for, the even ones and every third one have the topic searched *)
(* for, the scores all differ, and the fifth has the name of the first.    *)
(***************************************************************************)
PoolProject(i) ==
    QueryProject(NatText(IF i = 5 THEN 1 ELSE i), WINNER,
                 IF i % 2 = 0 \/ i % 3 = 0 THEN AI ELSE <<"m", "l">>,
                 IF i % 2 = 1 THEN GO ELSE <<"j", "s">>,
                 Real(i, 0))

\* the framework and the topic the model names for the user's project
UserFrameworks == {<<"G", "o", ",", " ", "j", "s">>, <<"c">>}
UserTopics == {CAP_AI, <<"a", "i", ",", " ", "m", "l">>}

\* lines 264-269 without the seen_names test
DedupKeepingAll(winners, seen_names) == winners

\* lines 264-269 (scrape.py 281-286): keep the first winner of every name
RECURSIVE Dedup(_, _)
Dedup(winners, seen_names) ==
    IF winners = <<>> THEN <<>>
    ELSE IF Head(winners)[1] \in seen_names
    THEN Dedup(Tail(winners), seen_names)
    ELSE <<Head(winners)>> \o Dedup(Tail(winners), seen_names \cup {Head(winners)[1]})

\* related_winners[:n]
related_winners(framework_winners, topic_winners, n) ==
    Slice(Dedup(framework_winners \o topic_winners, {}), 0, n)

\* gemini_client.py, lines 255-270: every outcome of the two reads, with the
\* related winners made of it
gemini_related_winners(db, user_framework, user_topic) ==
    {[framework_winners |-> fw, topic_winners |-> tw,
      related_winners |-> related_winners(fw, tw, 6)] :
        fw \in get_winners_by_framework(db, Lower(user_framework), 5),
        tw \in get_winners_by_category(db, Lower(user_topic), 5)}

\* scrape.py, lines 268-278: the topic query, for the topic up to its first
\* comma
scrape_topic_winners(db, user_topic) ==
    {[k \in DOMAIN q |-> Row6(q[k])] :
        q \in SqliteOrdered(
                 {r \in db : IsWinner(r) /\
                     LowerLike(r.topic,
                               LikePattern(Strip(FirstPart(user_topic, <<",">>))))}, 5)}

\* scrape.py, lines 255-287
scrape_related_winners(db, user_framework, user_topic) ==
    {[framework_winners |-> fw, topic_winners |-> tw,
      related_winners |-> related_winners(fw, tw, 8)] :
        fw \in get_winners_by_framework(db, Lower(user_framework), 5),
        tw \in scrape_topic_winners(db, Lower(user_topic))}

InitRelated ==
    /\ Quiet
    /\ \E ids \in SUBSET (1..MaxPool) : hacks = {QueryRow(i, PoolProject(i)) : i \in ids}
    /\ \E user_framework \in UserFrameworks, user_topic \in UserTopics :
        probe = [fn |-> "related", applied |-> FALSE,
                 user_framework |-> user_framework, user_topic |-> user_topic,
                 gemini |-> {}, scrape |-> {}]

ApplyRelated ==
    /\ probe.fn = "related" /\ ~probe.applied
    /\ probe' = [probe EXCEPT
           !.applied = TRUE,
           !.gemini = gemini_related_winners(hacks, probe.user_framework,
                                             probe.user_topic),
           !.scrape = scrape_related_winners(hacks, probe.user_framework,
                                             probe.user_topic)]
    /\ UNCHANGED <<hacks, nextId, pc, loc, batch>>

SpecRelated == InitRelated /\ [][ApplyRelated]_vars

(***************************************************************************)
(* The CORS configuration of the application (main.py, lines 74-102): the  *)
(* environment variable CORS_ORIGINS, unset (NULL here) or a text made of  *)
(* origins, wildcards, commas, slashes and white space.                    *)
(***************************************************************************)
STAR == <<"*">>
LOCALHOST_3000 == <<"h", "t", "t", "p", ":", "/", "/", "l", "o", "c", "a", "l",
                    "h", "o", "s", "t", ":", "3", "0", "0", "0">>
LOCALHOST_5173 == <<"h", "t", "t", "p", ":", "/", "/", "l", "o", "c", "a", "l",
                    "h", "o", "s", "t", ":", "5", "1", "7", "3">>
ORIGIN_APP == <<"h", "t", "t", "p", "s", ":", "/", "/", "a", "p", "p">>

CorsPieces == {STAR, <<",">>, <<" ">>, <<"/">>, ORIGIN_APP}

\* value.split(",")
RECURSIVE SplitAtCommas(_)
SplitAtCommas(value) ==
    IF ~Contains(value, <<",">>) THEN <<value>>
    ELSE <<FirstPart(value, <<",">>)>> \o
         SplitAtCommas(Slice(value, Find(value, <<",">>, 0) + 1, Len(value)))

\* lines 81-89: the loop over the parts
RECURSIVE NormalizedOrigins(_)
NormalizedOrigins(parts) ==
    IF parts = <<>> THEN <<>>
    ELSE LET normalized == Strip(Head(parts))
         IN  IF normalized = <<>> THEN NormalizedOrigins(Tail(parts))
             ELSE <<RStrip(normalized, {"/"})>> \o NormalizedOrigins(Tail(parts))

\* main._parse_cors_origins
_parse_cors_origins(value) ==
    IF value = NULL \/ value = <<>>
    THEN <<LOCALHOST_3000, LOCALHOST_5173>>
    ELSE IF Strip(value) = STAR THEN <<STAR>>
    ELSE NormalizedOrigins(SplitAtCommas(Strip(value)))

\* the wildcard never seen among the origins
_cors_allows_any_never(_cors_origins) == FALSE

\* line 94: "*" in _cors_origins
_cors_allows_any(_cors_origins) ==
    \E k \in DOMAIN _cors_origins : _cors_origins[k] = STAR

InitCors ==
    /\ Quiet
    /\ hacks = {}
    /\ \E value \in {NULL} \cup {Joined(pieces) : pieces \in SeqsUpTo(CorsPieces, MaxCorsPieces)} :
        probe = [fn |-> "cors", CORS_ORIGINS |-> value, applied |-> FALSE,
                 allow_origins |-> <<>>, allow_credentials |-> FALSE]

\* lines 93-102: the middleware is added with the parsed origins
ApplyCors ==
    /\ probe.fn = "cors" /\ ~probe.applied
    /\ LET _cors_origins == _parse_cors_origins(probe.CORS_ORIGINS)
       IN  probe' = [probe EXCEPT !.applied = TRUE,
                                  !.allow_origins = _cors_origins,
                                  !.allow_credentials = ~_cors_allows_any(_cors_origins)]
    /\ UNCHANGED <<hacks, nextId, pc, loc, batch>>

SpecCors == InitCors /\ [][ApplyCors]_vars

(***************************************************************************)
(* The gateway calls with their connections.  A call of database.py opens  *)
(* a connection with sqlite3.connect, runs its statements and calls        *)
(* conn.close() on the paths that reach it; a call of                      *)
(* database_snowflake.py runs inside get_snowflake_connection, whose       *)
(* finally clause closes the connection.  probe.open counts the            *)
(* connections that were opened and not closed.  A connection that a       *)
(* call left open may be closed later by the garbage collector, or not.    *)
(***************************************************************************)
Backends == {"sqlite", "snowflake"}

\* the gateway operations that only read: one connection, SELECTs, close
GatewayReads == {"check_duplicate_project", "get_winners_by_category",
                 "get_winners_excluding_category", "get_participants",
                 "get_winners_by_framework", "get_top_winners", "get_database_stats"}

\* the projects insert_project is called with; the last has no name
GatewayProjects ==
    {QueryProject(<<"a">>, WINNER, AI, GO, Real(75, 1)),
     QueryProject(<<"d">>, PARTICIPANT, AI, GO, Real(3, 0)),
     QueryProject(NULL, WINNER, AI, GO, JNull)}

NoProject == QueryProject(NULL, NULL, NULL, NULL, JNull)

\* the call ends on a store error: insert_project catches it and returns
\* False, every other call lets it out.  Only the snowflake context manager
\* closes the connection on this path.
GatewayFail(g) ==
    [g EXCEPT !.at = "idle",
              !.result = IF g.op = "insert_project" THEN "False" ELSE "raised",
              !.open = IF g.backend = "snowflake" THEN @ - 1 ELSE @]

\* connect: the call begins and opens its connection
GatewayConnect ==
    /\ probe.fn = "gateway" /\ probe.at = "idle"
    /\ probe.open < MaxLeaks
    /\ \E op \in GatewayReads \cup {"insert_project", "delete_by_id"} :
       \E project \in GatewayProjects, project_id \in 1..MaxRows :
            /\ op = "insert_project" => nextId <= MaxRows
            /\ probe' = [probe EXCEPT
                   !.at = "connected", !.op = op, !.result = "pending",
                   !.project = IF op = "insert_project" THEN project ELSE NoProject,
                   !.project_id = IF op = "delete_by_id" THEN project_id ELSE 0,
                   !.open = @ + 1]
    /\ UNCHANGED <<hacks, nextId, pc, loc, batch>>

\* the first statement of the call: the INSERT with its commit, the SELECT
\* of delete_by_id, or the SELECT of a read
GatewayExecute ==
    /\ probe.fn = "gateway" /\ probe.at = "connected"
    /\ \E ok \in BOOLEAN :
        IF ~ok \/ (probe.op = "insert_project" /\ probe.project.name = NULL)
        THEN /\ probe' = GatewayFail(probe)
             /\ UNCHANGED <<hacks, nextId>>
        ELSE IF probe.op = "insert_project"
        THEN /\ hacks' = hacks \cup {QueryRow(nextId, probe.project)}
             /\ nextId' = nextId + 1
             /\ probe' = [probe EXCEPT !.at = "executed", !.result = "True"]
        ELSE IF probe.op = "delete_by_id"
        THEN /\ probe' = IF RowsById(hacks, probe.project_id) = {}
                         THEN [probe EXCEPT !.at = "executed", !.result = "not found"]
                         ELSE [probe EXCEPT !.at = "found"]
             /\ UNCHANGED <<hacks, nextId>>
        ELSE /\ probe' = [probe EXCEPT !.at = "executed", !.result = "rows"]
             /\ UNCHANGED <<hacks, nextId>>
    /\ UNCHANGED <<pc, loc, batch>>

\* delete_by_id, lines 86-88: the DELETE and its commit
GatewayDelete ==
    /\ probe.fn = "gateway" /\ probe.at = "found"
    /\ \E ok \in BOOLEAN :
        IF ok
        THEN /\ hacks' = DeleteRows(hacks, probe.project_id)
             /\ probe' = [probe EXCEPT !.at = "executed", !.result = "deleted"]
        ELSE /\ probe' = GatewayFail(probe)
             /\ UNCHANGED hacks
    /\ UNCHANGED <<nextId, pc, loc, batch>>

\* conn.close() (the end of the with block) and the return
GatewayClose ==
    /\ probe.fn = "gateway" /\ probe.at = "executed"
    /\ probe' = [probe EXCEPT !.at = "idle", !.open = @ - 1]
    /\ UNCHANGED <<hacks, nextId, pc, loc, batch>>

\* the garbage collector finalises a connection a finished call left open
GatewayCollect ==
    /\ probe.fn = "gateway" /\ probe.at = "idle" /\ probe.open > 0
    /\ probe' = [probe EXCEPT !.open = @ - 1]
    /\ UNCHANGED <<hacks, nextId, pc, loc, batch>>

InitGateway ==
    /\ Quiet
    /\ hacks = {}
    /\ \E backend \in Backends :
        probe = [fn |-> "gateway", backend |-> backend, at |-> "idle", op |-> "none",
                 project |-> NoProject, project_id |-> 0, result |-> "none",
                 open |-> 0]

NextGateway ==
    \/ GatewayConnect
    \/ GatewayExecute
    \/ GatewayDelete
    \/ GatewayClose
    \/ GatewayCollect

SpecGateway == InitGateway /\ [][NextGateway]_vars

(***************************************************************************)
(* Properties.                                                             *)
(***************************************************************************)

\* C1 (SpecSeq): an auto_insert_hack call that begins while a row with its
\* URL is stored (the first call stored it) returns False whatever its status,
\* makes no model call, inserts nothing, and none of its steps changes the
\* table, which still holds exactly one row with that githubLink.
C1_SecondInsertIsDuplicate ==
    [][\A p \in Procs :
        (loc'[p].op = "insert" /\ loc'[p].dup_at_start /\ loc'[p] # loc[p]) =>
            /\ hacks' = hacks
            /\ nextId' = nextId
            /\ loc'[p].model_calls = 0
            /\ loc'[p].stored = 0
            /\ pc'[p] \in {"dupcheck", "done"}
            /\ pc'[p] = "done" =>
                /\ loc'[p].outcome = "False"
                /\ Cardinality({r \in hacks' :
                       r.githubLink = loc'[p].github_url}) = 1]_vars

\* C1 witness: a second call with another status than the stored row's got
\* through validation and was turned down by the duplicate check
C1_Witness ==
    \E p \in Procs :
        /\ pc[p] = "done" /\ loc[p].op = "insert" /\ loc[p].dup_at_start
        /\ loc[p].outcome = "False" /\ loc[p].error = "Duplicate detected"
        /\ \E r \in hacks : r.githubLink = loc[p].github_url /\ r.place # loc[p].status

\* C2 (Spec): after auto_insert_hack returned True and with no delete since,
\* every answer check_duplicate_project can give for the URL is exists=True
\* with the id and the name of the row that call stored.
C2_InsertThenCheckDuplicate ==
    \A p \in Procs :
        (pc[p] = "done" /\ loc[p].outcome = "True" /\ ~loc[p].deleted_after) =>
            \A res \in check_duplicate_project(hacks, loc[p].github_url) :
                res = <<TRUE, loc[p].stored, StoreText(GetKey(loc[p].data, NAME))>>

\* C3 (Spec): no two stored rows have the same githubLink.
C3_UniqueGithubLink ==
    \A r1, r2 \in hacks : r1.githubLink = r2.githubLink => r1 = r2

\* the model answered with a text that does not parse
ParseFailed(l) ==
    l.op = "insert" /\ l.response_text # NULL /\ ~ParsedAnswers[l.response_text].ok

\* C5 as stated (Spec): when the answer cannot be parsed, the call returns
\* False and has inserted no row.
C5_ParseFailureReturnsFalse ==
    \A p \in Procs :
        (pc[p] = "done" /\ ParseFailed(loc[p])) =>
            (loc[p].outcome = "False" /\ loc[p].stored = 0)

\* C5 amended (Spec): when the answer cannot be parsed, the call ends by
\* raising the parse error (POST /api/insert answers 500), it has inserted
\* no row, and the step that met the error leaves the table unchanged.
C5_ParseFailureRaises ==
    /\ [](\A p \in Procs :
            ParseFailed(loc[p]) =>
                /\ pc[p] = "done"
                /\ loc[p].outcome = "raised"
                /\ loc[p].error = "JSONDecodeError"
                /\ loc[p].stored = 0
                /\ loc[p].response.status_code = 500)
    /\ [][\A p \in Procs :
            (ParseFailed(loc'[p]) /\ loc'[p] # loc[p]) =>
                (hacks' = hacks /\ nextId' = nextId)]_vars

\* C5 witness: a call ended on an unparseable answer while the table holds a row
C5_Witness ==
    \E p \in Procs :
        /\ pc[p] = "done" /\ ParseFailed(loc[p]) /\ loc[p].outcome = "raised"
        /\ hacks # {}

\* C6 (Spec): a delete_by_id call for an id no row has returns success=False
\* with project_name None, is answered 404, and leaves the table unchanged.
C6_DeleteMissing ==
    [][\A p \in Procs :
        (/\ Idle(p) /\ loc'[p] # loc[p] /\ loc'[p].op = "delete"
         /\ \A r \in hacks : r.id # loc'[p].project_id) =>
            /\ pc'[p] = "done"
            /\ loc'[p].result = [success |-> FALSE, project_name |-> NULL]
            /\ loc'[p].response.status_code = 404
            /\ hacks' = hacks]_vars

\* C6 witness: a delete of a missing id was answered 404 with rows in the table
C6_Witness ==
    \E p \in Procs :
        /\ pc[p] = "done" /\ loc[p].op = "delete" /\ ~loc[p].result.success
        /\ loc[p].response.status_code = 404
        /\ hacks # {}
        /\ \A r \in hacks : r.id # loc[p].project_id

\* C7 (Spec): a delete_by_id call for an id a row has returns success=True
\* with that row's name; its DELETE removes the rows with that id and no
\* other; and from then on no row with that id is in the table, so that no
\* read (by id, by URL, filtered) returns it.
C7_DeleteExisting ==
    /\ [](\A p \in Procs :
            (pc[p] = "done" /\ loc[p].op = "delete" /\ loc[p].result.success) =>
                /\ \A r \in hacks : r.id # loc[p].project_id
                /\ RowsById(hacks, loc[p].project_id) = {}
                /\ \A u \in Urls : \A res \in check_duplicate_project(hacks, u) :
                       res[2] # loc[p].project_id
                /\ \A r \in ParticipantRows(hacks) : r.id # loc[p].project_id)
    /\ [][\A p \in Procs :
            /\ (Idle(p) /\ loc'[p] # loc[p] /\ loc'[p].op = "delete"
                /\ \E r \in hacks : r.id = loc'[p].project_id) =>
                    /\ pc'[p] = "del_exec"
                    /\ \E r \in hacks : /\ r.id = loc'[p].project_id
                                        /\ r.name = loc'[p].project_name
                    /\ hacks' = hacks
            /\ (pc[p] = "del_exec" /\ pc'[p] # pc[p]) =>
                    /\ pc'[p] = "done"
                    /\ loc'[p].result = [success |-> TRUE,
                                         project_name |-> loc[p].project_name]
                    /\ loc'[p].response.status_code = 200
                    /\ hacks' = {r \in hacks : r.id # loc[p].project_id}]_vars

\* C7 witness: a row was deleted while a row with the same name and another
\* id stays in the table
C7_Witness ==
    \E p \in Procs :
        /\ pc[p] = "done" /\ loc[p].op = "delete" /\ loc[p].result.success
        /\ \E r \in hacks : r.name = loc[p].result.project_name

\* C4 (SpecBatch): when the batch is done, success_count is the number of
\* lines whose auto_insert_hack call stored a row, and the failure list names
\* exactly the processed lines whose call stored none, once each, in order.
C4_BatchCounts ==
    batch.pc = "done" =>
        /\ batch.success_count = Len(batch.stored)
        /\ [k \in 1..Len(batch.failed) |-> batch.failed[k][1]] = batch.unstored

\* C8 (SpecStats): for any table, rows with a NULL place included, the
\* total_projects of the statistics equals total_winners plus the number of
\* rows the participants query selects.
C8_TotalIsWinnersPlusParticipants ==
    (probe.fn = "stats" /\ probe.applied) =>
        probe.stats.total_projects = probe.stats.total_winners + probe.participants

C10_OutcomeDecidesVerdict ==
    (probe.fn = "validate" /\ probe.applied) =>
        LET v == probe.verdict
            remote == probe.remote
        IN  IF ~match_pattern(probe.url).matched
            THEN ~v.valid /\ v.lookup = NoLookup
            ELSE /\ v.lookup # NoLookup
                 /\ remote.kind = "exception" => ~v.valid
                 /\ (remote.kind = "response" /\ remote.status_code = 404) => ~v.valid
                 /\ (remote.kind = "response" /\ remote.status_code = 403) =>
                        v.valid /\ v.warned
                 /\ (remote.kind = "response" /\ remote.status_code = 200) => v.valid
                 /\ (remote.kind = "response" /\ remote.status_code \notin {200, 403, 404}) =>
                        ~v.valid

\* C10 amended (SpecValidate): as stated, except that a 200 response gives
\* valid exactly when its body carries a name, and invalid when it does not.
C10_OutcomeAndNameDecideVerdict ==
    (probe.fn = "validate" /\ probe.applied) =>
        LET v == probe.verdict
            remote == probe.remote
        IN  IF ~match_pattern(probe.url).matched
            THEN ~v.valid /\ v.lookup = NoLookup
            ELSE /\ v.lookup # NoLookup
                 /\ remote.kind = "exception" => ~v.valid
                 /\ (remote.kind = "response" /\ remote.status_code = 404) => ~v.valid
                 /\ (remote.kind = "response" /\ remote.status_code = 403) =>
                        v.valid /\ v.warned
                 /\ (remote.kind = "response" /\ remote.status_code = 200) =>
                        (v.valid <=> remote.has_name) /\ ~v.warned
                 /\ (remote.kind = "response" /\ remote.status_code \notin {200, 403, 404}) =>
                        ~v.valid

\* C10 witness: a matching URL whose lookup answered 403 was let through
\* with the warning
C10_Witness ==
    /\ probe.fn = "validate" /\ probe.applied
    /\ match_pattern(probe.url).matched
    /\ probe.remote.kind = "response" /\ probe.remote.status_code = 403
    /\ probe.verdict.valid /\ probe.verdict.warned
    /\ probe.verdict.lookup # NoLookup

\* the step is one of request p's handler (a delete by another request only
\* sets p's deleted_after note)
OwnStep(p) ==
    \/ pc'[p] # pc[p]
    \/ [loc'[p] EXCEPT !.deleted_after = FALSE] # [loc[p] EXCEPT !.deleted_after = FALSE]

\* C11 (Spec): the steps of one auto_insert_hack call come in the order
\* validate, duplicate check, model call, insert.  The duplicate check is
\* entered only from the validation of a URL the validator accepts; the model
\* is called only from a duplicate check that found no row with the URL, and
\* once; the insert is entered only from a model call whose answer parsed,
\* and only the insert step adds a row; a call that ends at the validation or
\* at the duplicate check has made no model call and changes nothing in the
\* table.
C11_StepOrder ==
    [][\A p \in Procs :
        /\ (pc'[p] = "dupcheck" /\ pc[p] # "dupcheck") =>
                /\ Idle(p)
                /\ \E remote \in Remotes : Verdicts[loc'[p].github_url][remote].valid
                /\ loc'[p].model_calls = 0
                /\ hacks' = hacks
        /\ (pc'[p] = "model" /\ pc[p] # "model") =>
                /\ pc[p] = "dupcheck"
                /\ RowsByLink(hacks, loc'[p].github_url) = {}
                /\ loc'[p].model_calls = 0
                /\ hacks' = hacks
        /\ (loc'[p].model_calls > loc[p].model_calls) =>
                /\ pc[p] = "model"
                /\ loc'[p].model_calls = 1
                /\ hacks' = hacks
        /\ (pc'[p] = "insert" /\ pc[p] # "insert") =>
                /\ pc[p] = "model"
                /\ loc'[p].model_calls = 1
                /\ ParsedAnswers[loc'[p].response_text].ok
                /\ loc'[p].data = ParsedAnswers[loc'[p].response_text]
        /\ (loc'[p].stored # 0 /\ loc[p].stored = 0) =>
                /\ pc[p] = "insert"
                /\ loc[p].data.ok
                /\ \E r \in hacks' \ hacks : r.id = loc'[p].stored
        /\ (hacks' \ hacks # {}) => \E q \in Procs : pc[q] = "insert" /\ pc'[q] = "done"
        /\ (OwnStep(p) /\ pc'[p] = "done" /\ loc'[p].op = "insert"
                /\ (Idle(p) \/ pc[p] = "dupcheck")) =>
                /\ loc'[p].outcome = "False"
                /\ loc'[p].model_calls = 0
                /\ loc'[p].stored = 0
                /\ hacks' = hacks /\ nextId' = nextId]_vars

\* C11 witness: one call went through all four steps and stored a row, and
\* another call for the same URL ended at the duplicate check without a model
\* call
C11_Witness ==
    \E p, q \in Procs :
        /\ pc[p] = "done" /\ loc[p].outcome = "True" /\ loc[p].model_calls = 1
        /\ \E r \in hacks : r.id = loc[p].stored
        /\ pc[q] = "done" /\ loc[q].op = "insert"
        /\ loc[q].error = "Duplicate detected" /\ loc[q].model_calls = 0
        /\ loc[q].github_url = loc[p].github_url

\* C12 (Spec): an auto_insert_hack call returns True exactly when its INSERT
\* stored a row, and when the table rejects the INSERT the call returns False
\* (it neither returns True nor raises).
C12_StoreErrorReturnsFalse ==
    \A p \in Procs :
        (pc[p] = "done" /\ loc[p].op = "insert") =>
            /\ (loc[p].outcome = "True") <=> (loc[p].stored # 0)
            /\ (HasAllKeys(loc[p].data) /\ ViolatesNotNull(loc[p].data)) =>
                    loc[p].outcome = "False"

\* a TEXT column read back equals the parsed value v (a str equals a str of
\* the same text, None equals None, a number equals no str)
TextColumnIs(col, v) ==
    IF v.kind = "string" THEN col = v.text
    ELSE IF v.kind = "null" THEN col = NULL
    ELSE FALSE

\* the row's columns equal the url, the status and the six parsed values
RowHoldsValues(r, github_url, status, data) ==
    /\ r.githubLink = github_url
    /\ r.place = status
    /\ TextColumnIs(r.name, GetKey(data, NAME))
    /\ TextColumnIs(r.framework, GetKey(data, FRAMEWORK))
    /\ TextColumnIs(r.topic, GetKey(data, TOPIC))
    /\ TextColumnIs(r.descriptions, GetKey(data, DESCRIPTIONS))
    /\ PyEq(r.ai_score, GetKey(data, AI_SCORE))
    /\ TextColumnIs(r.ai_reasoning, GetKey(data, AI_REASONING))

\* the parsed values have the types of their columns: a str or None for the
\* text columns, a number or None for ai_score
WellTyped(data) ==
    /\ \A key \in DataKeys \ {AI_SCORE} : GetKey(data, key).kind \in {"string", "null"}
    /\ GetKey(data, AI_SCORE).kind \in {"number", "null"}

\* C13 as stated (Spec): the row a call that returned True stored holds the
\* submitted url and status and the six values of the parsed answer, and when
\* it is a winner and the only row of the table, get_top_winners(1) returns
\* exactly it.
C13_StoredRowHoldsParsedValues ==
    \A p \in Procs : \A r \in hacks :
        (pc[p] = "done" /\ loc[p].outcome = "True" /\ r.id = loc[p].stored) =>
            /\ RowHoldsValues(r, loc[p].github_url, loc[p].status, loc[p].data)
            /\ (hacks = {r} /\ loc[p].status = WINNER) =>
                    get_top_winners(hacks, 1) = {<<Row6(r)>>}

\* C13 amended (Spec): as stated, for an answer whose values have the types
\* of their columns (strings or null for the text columns, a number or null
\* for ai_score).
C13_StoredRowHoldsTypedValues ==
    \A p \in Procs : \A r \in hacks :
        (pc[p] = "done" /\ loc[p].outcome = "True" /\ r.id = loc[p].stored
            /\ WellTyped(loc[p].data)) =>
            /\ RowHoldsValues(r, loc[p].github_url, loc[p].status, loc[p].data)
            /\ (hacks = {r} /\ loc[p].status = WINNER) =>
                    get_top_winners(hacks, 1) = {<<Row6(r)>>}

\* C13 witness: the only row of the table is the winner a call just stored
\* from a fenced answer, with the score 7.5 or 11 and a null topic
C13_Witness ==
    \E p \in Procs : \E r \in hacks :
        /\ pc[p] = "done" /\ loc[p].outcome = "True" /\ r.id = loc[p].stored
        /\ WellTyped(loc[p].data)
        /\ hacks = {r} /\ loc[p].status = WINNER
        /\ r.topic = NULL /\ r.ai_score.kind = "number"
        /\ get_top_winners(hacks, 1) = {<<Row6(r)>>}

\* the filters the reads are described by: a case-insensitive substring match,
\* which a column holding NULL does not meet either way
ContainsNoCase(col, term) == col # NULL /\ Contains(Lower(col), Lower(term))
LacksNoCase(col, term) == col # NULL /\ ~Contains(Lower(col), Lower(term))

\* one number is below another; NULL is compared with nothing
ScoreBelow(a, b) == a.kind = "number" /\ b.kind = "number" /\ NumLess(a, b)

\* every result the read may give has at most limit rows, each the selected
\* columns of a stored row that meets the filter, in non-increasing score
\* order, and leaves out no row that meets the filter and beats a returned one
ReadMeets(results, Columns(_), Meets(_)) ==
    \A res \in results :
        /\ Len(res) <= probe.limit
        /\ \A k \in DOMAIN res : \E r \in hacks : Columns(r) = res[k] /\ Meets(r)
        /\ \A i, j \in DOMAIN res : i < j => ~ScoreBelow(res[i][5], res[j][5])
        /\ \A r \in hacks :
               (Meets(r) /\ \A k \in DOMAIN res : res[k] # Columns(r)) =>
                   \A k \in DOMAIN res : ~ScoreBelow(res[k][5], r.ai_score)

\* C14 (SpecQuery): for every table, term and limit, each filtered read of
\* either backend returns at most limit records, each satisfying the read's
\* case-insensitive substring filter on place, topic or framework, in
\* non-increasing ai_score order, with no higher-scored record that satisfies
\* the filter left out.
C14_FilteredReadsMeetTheirFilter ==
    probe.applied =>
        /\ \A reads \in {probe.sqlite, probe.snowflake} :
            /\ ReadMeets(reads.get_winners_excluding_category, Row6,
                         LAMBDA r : IsWinner(r) /\ LacksNoCase(r.topic, probe.term))
            /\ ReadMeets(reads.get_participants, Row6, IsParticipant)
        /\ ReadMeets(probe.sqlite.get_winners_by_category, Row6,
                     LAMBDA r : IsWinner(r) /\ ContainsNoCase(r.topic, probe.term))
        /\ ReadMeets(probe.sqlite.get_winners_by_framework, Row6,
                     LAMBDA r : IsWinner(r) /\
                                ContainsNoCase(r.framework, framework_key(probe.term)))
        /\ ReadMeets(probe.sqlite.get_top_winners, Row6, IsWinner)
        /\ ReadMeets(probe.snowflake.get_winners_by_category, Row7,
                     LAMBDA r : IsWinner(r) /\ ContainsNoCase(r.topic, probe.term))
        /\ ReadMeets(probe.snowflake.get_winners_by_framework, Row7,
                     LAMBDA r : IsWinner(r) /\
                                ContainsNoCase(r.framework, framework_key(probe.term)))
        /\ ReadMeets(probe.snowflake.get_top_winners, Row7, IsWinner)

\* C16 (SpecQuery): for the same table and the same arguments every read of
\* the gateway (the duplicate check, the five filtered reads, the statistics)
\* gives the same results, with the same fields per row, from database.py as
\* from database_snowflake.py.
C16_BackendsAgree ==
    probe.applied =>
        \A operation \in DOMAIN NoReads :
            probe.sqlite[operation] = probe.snowflake[operation]

\* C15 (SpecOps): across any sequence of insert, delete, duplicate-check,
\* filtered-read, stats, trend and analysis operations, a row that stays in
\* the table keeps every field value it had, and a step changes the table
\* only by adding one new row or by removing one row.
C15_RecordsImmutable ==
    [][/\ \A r \in hacks : \A kept \in hacks' : kept.id = r.id => kept = r
       /\ \/ hacks' = hacks
          \/ \E r \in hacks' \ hacks : hacks' = hacks \cup {r}
          \/ \E r \in hacks : hacks' = hacks \ {r}]_vars

\* C15 witness: a trend analysis has read a table from which the first row
\* was deleted and in which the second row inserted is still stored
C15_Witness ==
    /\ pc[CLIENT] = "done"
    /\ loc[CLIENT].op = "find_trends_with_gemini"
    /\ nextId = 3
    /\ \E r \in hacks : r.id = 2 /\ hacks = {r} /\ IsWinner(r)
    /\ loc[CLIENT].read.lists[1] # {<<>>}

\* a line of the file that is neither blank nor a comment, once stripped
IsEntry(line) == Strip(line) # <<>> /\ ~StartsWith(Strip(line), HASH)

\* the indices of such lines, in file order
EntryIndices(lines) ==
    SelectSeq([k \in 1..Len(lines) |-> k], LAMBDA k : IsEntry(lines[k]))

\* the line gives a status, or the default status stands in
HasStatus(line) ==
    ParseLine(Strip(line), batch.default_status).status \notin {NULL, <<>>}

\* C17 (SpecBatch): whatever the earlier lines did, the lines read so far
\* that are neither blank nor '#'-prefixed have each been processed exactly
\* once and in file order, auto_insert_hack has been called once for each of
\* them that has a status and for no other line, and the loop ends only
\* behind the last line: no failure or raise makes it skip or repeat a line.
C17_EveryEntryProcessedOnce ==
    batch.pc \in {"run", "done"} =>
        /\ batch.i <= Len(batch.lines) + 1
        /\ batch.pc = "done" => batch.i = Len(batch.lines) + 1
        /\ batch.seen = EntryIndices(SubSeq(batch.lines, 1, batch.i - 1))
        /\ batch.calls = SelectSeq(batch.seen, LAMBDA k : HasStatus(batch.lines[k]))
        /\ \A n \in DOMAIN batch.calls : IsEntry(batch.lines[batch.calls[n]])

\* C17 witness: the call for the first entry raised, the call for a later
\* entry with another URL stored a row, and the file holds a line that is
\* skipped
C17_Witness ==
    /\ batch.pc = "done"
    /\ Len(batch.calls) = 2
    /\ Len(batch.failed) = 1
    /\ batch.failed[1][2] \in {"APIError", "JSONDecodeError", "TypeError",
                               "KeyError", "IntegrityError"}
    /\ batch.failed[1][1] =
           ParseLine(Strip(batch.lines[batch.calls[1]]), batch.default_status).github_url
    /\ batch.stored =
           <<ParseLine(Strip(batch.lines[batch.calls[2]]), batch.default_status).github_url>>
    /\ batch.failed[1][1] # batch.stored[1]
    /\ \E k \in DOMAIN batch.lines : ~IsEntry(batch.lines[k])

\* request p is past the duplicate check and has not inserted yet
PastCheck(p) == pc[p] \in {"model", "insert"}

\* C18 (Spec): the duplicate check of one request takes no account of
\* another request for the same URL that is past its own check and has not
\* inserted yet: with no row for the URL stored it lets the request through,
\* and then both requests are past the duplicate check and neither has
\* inserted.
C18_BothPassDuplicateCheck ==
    [][\A p \in Procs : \A q \in Procs \ {p} :
        (/\ pc[p] = "dupcheck" /\ pc'[p] # "dupcheck"
         /\ PastCheck(q) /\ loc[q].github_url = loc[p].github_url
         /\ existing(hacks, loc[p].github_url) = {}) =>
            /\ pc'[p] = "model"
            /\ pc'[q] = pc[q]
            /\ existing(hacks', loc'[p].github_url) = {}]_vars

\* C18 witness: two requests for the same URL are both past the duplicate
\* check, neither has inserted, and no row with the URL is stored
C18_Witness ==
    \E p \in Procs : \E q \in Procs \ {p} :
        /\ PastCheck(p) /\ PastCheck(q)
        /\ loc[p].op = "insert" /\ loc[q].op = "insert"
        /\ loc[p].github_url = loc[q].github_url
        /\ loc[p].stored = 0 /\ loc[q].stored = 0
        /\ existing(hacks, loc[p].github_url) = {}

\* C19 (Spec): every stored row whose ai_score is a number has it between
\* 0.0 and 10.0 inclusive, whatever number the model's answer carried.
C19_ScoreWithinRange ==
    \A r \in hacks :
        r.ai_score.kind = "number" =>
            /\ ~NumLess(r.ai_score, JNum(0, 0))
            /\ ~NumLess(JNum(10, 0), r.ai_score)

\* text t has the marker at 0-based position a and nowhere before it
FirstMarkerAt(t, marker, a) ==
    /\ a + Len(marker) <= Len(t)
    /\ SubSeq(t, a + 1, a + Len(marker)) = marker
    /\ ~Contains(SubSeq(t, 1, a + Len(marker) - 1), marker)

\* the text behind position a of t
Behind(t, a) == SubSeq(t, a + 1, Len(t))

\* text is the trimmed content that runs up to the first fence marker of rest
ContentUpToMarker(rest, text) ==
    \E b \in 0..Len(rest) :
        FirstMarkerAt(rest, FENCE, b) /\ text = Strip(SubSeq(rest, 1, b))

\* C20 as stated (SpecFence): when the trimmed text holds a fence, the text
\* parsed is the content between the first fence opener in the text (with
\* its json tag, when it has one) and the next fence marker behind it; when
\* it holds no fence, the whole trimmed text is parsed.
C20_FirstFenceWins ==
    (probe.fn = "fence" /\ probe.applied) =>
        LET t == Strip(probe.response_text)
        IN  IF ~Contains(t, FENCE) THEN probe.text = t
            ELSE \E a \in 0..Len(t) :
                    /\ FirstMarkerAt(t, FENCE, a)
                    /\ LET opener == IF StartsWith(Behind(t, a), FENCE_JSON)
                                     THEN FENCE_JSON ELSE FENCE
                           rest   == Behind(t, a + Len(opener))
                       IN  Contains(rest, FENCE) => ContentUpToMarker(rest, probe.text)

\* C20 amended (SpecFence): the opener is the first json-tagged fence marker
\* when the trimmed text holds one anywhere, otherwise the first fence
\* marker; the text parsed is the trimmed content between the opener and the
\* next fence marker behind it, or, when no marker follows, the trimmed
\* content behind the opener without its last character; when the text holds
\* no fence, the whole trimmed text is parsed.
C20_TaggedFenceWins ==
    (probe.fn = "fence" /\ probe.applied) =>
        LET t == Strip(probe.response_text)
            opener == IF Contains(t, FENCE_JSON) THEN FENCE_JSON ELSE FENCE
        IN  IF ~Contains(t, FENCE) THEN probe.text = t
            ELSE \E a \in 0..Len(t) :
                    /\ FirstMarkerAt(t, opener, a)
                    /\ LET rest == Behind(t, a + Len(opener))
                       IN  IF Contains(rest, FENCE)
                           THEN ContentUpToMarker(rest, probe.text)
                           ELSE probe.text = Strip(SubSeq(rest, 1, Len(rest) - 1))

\* C20 witness: an untagged fence comes before a json-tagged one, and the
\* content of the tagged fence is what was parsed
C20_Witness ==
    /\ probe.fn = "fence" /\ probe.applied
    /\ probe.response_text = FENCE \o <<"1">> \o FENCE_JSON \o <<"2">> \o FENCE
    /\ probe.text = <<"2">>
    /\ probe.data.ok

\* C21 (SpecGateway): whenever no gateway call is under way (every call made
\* so far has finished, by normal return, by a not-found result or by a
\* store error) no connection is open.
C21_NoConnectionStaysOpen ==
    (probe.fn = "gateway" /\ probe.at = "idle") => probe.open = 0

\* url and status are the trimmed parts of the line before and behind its
\* first comma
SplitAtFirstComma(line, url, status) ==
    \E k \in 1..Len(line) :
        /\ line[k] = ","
        /\ \A j \in 1..(k - 1) : line[j] # ","
        /\ url = Strip(SubSeq(line, 1, k - 1))
        /\ status = Strip(SubSeq(line, k + 1, Len(line)))

\* what a stripped line gives: its two parts, or the line and the default
LineGives(line, url, status) ==
    IF \E k \in 1..Len(line) : line[k] = ","
    THEN SplitAtFirstComma(line, url, status)
    ELSE url = line /\ status = batch.default_status

\* C22 (SpecBatch): auto_insert_hack is called for a line with the url and
\* the status its first comma separates, both trimmed, or with the whole
\* line and the default status when the line has no comma; a line that ends
\* up with no status is put on the failure list with the reason "No status"
\* and gets no call.
C22_LineSplitAtFirstComma ==
    batch.pc \in {"run", "done"} =>
        LET called  == {batch.calls[n] : n \in DOMAIN batch.calls}
            skipped == SelectSeq(batch.seen, LAMBDA k : k \notin called)
            refused == SelectSeq(batch.failed, LAMBDA e : e[2] = "No status")
        IN  /\ Len(batch.args) = Len(batch.calls)
            /\ \A n \in DOMAIN batch.calls :
                /\ LineGives(Strip(batch.lines[batch.calls[n]]),
                             batch.args[n][1], batch.args[n][2])
                /\ batch.args[n][2] \notin {NULL, <<>>}
            /\ Len(refused) = Len(skipped)
            /\ \A n \in DOMAIN skipped :
                \E status \in {NULL, <<>>} :
                    LineGives(Strip(batch.lines[skipped[n]]), refused[n][1], status)

\* C22 witness: with no default status, a line with two commas was called
\* with everything behind its first comma as the status and a line without
\* a comma was refused
C22_Witness ==
    /\ batch.pc = "done"
    /\ batch.default_status = NULL
    /\ \E n \in DOMAIN batch.args :
        batch.args[n] = <<URL_WIDGET_ALT, WINNER \o <<",", "2">> >>
    /\ \E n \in DOMAIN batch.failed : batch.failed[n] = <<URL_WIDGET_ALT, "No status">>

\* C23 (SpecOpsFair): an auto_insert_hack call makes at most one remote
\* existence check, one duplicate check, one model call and one INSERT, and a
\* call that has begun ends, with True, False or a raised error.
C23_LinearAndTerminating ==
    /\ [](\A p \in Procs :
            /\ loc[p].remote_checks <= 1
            /\ loc[p].dup_checks <= 1
            /\ loc[p].model_calls <= 1
            /\ loc[p].inserts <= 1)
    /\ \A p \in Procs :
        (pc[p] \in {"dupcheck", "model", "insert"}) ~>
            (pc[p] = "done" /\ loc[p].outcome \in {"True", "False", "raised"})

\* C23 witness: a call has ended after one step of each kind
C23_Witness ==
    \E p \in Procs :
        /\ pc[p] = "done" /\ loc[p].op = "insert"
        /\ loc[p].remote_checks = 1 /\ loc[p].dup_checks = 1
        /\ loc[p].model_calls = 1 /\ loc[p].inserts = 1
        /\ loc[p].outcome = "True"

\* the elements of a list
Elements(list) == {list[k] : k \in DOMAIN list}

\* where a record first stands in a list
FirstPosition(list, record) == Min({k \in DOMAIN list : list[k] = record})

\* the list has no two entries of one name, at most n entries, and keeps
\* the order of the framework matches followed by the topic matches
RelatedWellFormed(outcome, n) ==
    LET related == outcome.related_winners
        matches == outcome.framework_winners \o outcome.topic_winners
    IN  /\ \A i, j \in DOMAIN related : i < j => related[i][1] # related[j][1]
        /\ Len(related) <= n
        /\ Elements(related) \subseteq Elements(matches)
        /\ \A i, j \in DOMAIN related :
               i < j => FirstPosition(matches, related[i]) <
                        FirstPosition(matches, related[j])

\* what the gateway reads return for the framework and the topic, whatever
\* the limit
GatewayMatches(user_framework, user_topic) ==
    UNION {Elements(list) :
        list \in get_winners_by_framework(hacks, Lower(user_framework),
                                          Cardinality(hacks))
                 \cup get_winners_by_category(hacks, Lower(user_topic),
                                              Cardinality(hacks))}

\* C24 as stated (SpecRelated): the related winners of either implementation
\* hold no two entries of one name, at most 6 (gemini_client) or 8 (scrape)
\* entries, only records that get_winners_by_framework or
\* get_winners_by_category returns for the extracted framework and topic,
\* and the framework matches before the topic matches in their score order.
C24_RelatedFromGatewayReads ==
    (probe.fn = "related" /\ probe.applied) =>
        /\ \A outcome \in probe.gemini :
            /\ RelatedWellFormed(outcome, 6)
            /\ Elements(outcome.related_winners) \subseteq
                   GatewayMatches(probe.user_framework, probe.user_topic)
        /\ \A outcome \in probe.scrape :
            /\ RelatedWellFormed(outcome, 8)
            /\ Elements(outcome.related_winners) \subseteq
                   GatewayMatches(probe.user_framework, probe.user_topic)

\* C24 amended (SpecRelated): the same, where the records scrape's list is
\* made of are those get_winners_by_framework returns for the extracted
\* framework and get_winners_by_category returns for the extracted topic up
\* to its first comma.
C24_RelatedFromOwnReads ==
    (probe.fn = "related" /\ probe.applied) =>
        /\ \A outcome \in probe.gemini :
            /\ RelatedWellFormed(outcome, 6)
            /\ Elements(outcome.related_winners) \subseteq
                   GatewayMatches(probe.user_framework, probe.user_topic)
        /\ \A outcome \in probe.scrape :
            /\ RelatedWellFormed(outcome, 8)
            /\ Elements(outcome.related_winners) \subseteq
                   GatewayMatches(probe.user_framework,
                                  Strip(FirstPart(probe.user_topic, <<",">>)))

\* C24 witness: the two reads gave more than six names between them, one
\* record came in both and another name twice, and six were kept
C24_Witness ==
    /\ probe.fn = "related" /\ probe.applied
    /\ \E outcome \in probe.gemini :
        /\ Len(outcome.related_winners) = 6
        /\ Cardinality({w[1] : w \in Elements(outcome.framework_winners)
                                     \cup Elements(outcome.topic_winners)}) > 6
        /\ Elements(outcome.framework_winners) \cap Elements(outcome.topic_winners) # {}
        /\ \E i, j \in DOMAIN outcome.framework_winners :
               i < j /\ outcome.framework_winners[i][1] = outcome.framework_winners[j][1]

\* C25 (SpecValidate): for every URL of the accepted format, made of a
\* prefix, an owner, a repository name, an optional ".git" and an optional
\* slash, the existence check is issued for exactly that owner and that
\* repository name.
C25_LookupIsOwnerAndRepo ==
    (probe.fn = "validate" /\ probe.applied) =>
        \A prefix \in UrlPrefixes, owner \in OWNERS \ {<<>>}, repo \in REPOS \ {<<>>},
           git \in {<<>>, DOT_GIT}, slash \in {<<>>, <<"/">>} :
            (/\ probe.url = prefix \o owner \o <<"/">> \o repo \o git \o slash
             /\ \A i \in DOMAIN owner : owner[i] \in OwnerChars)
                => probe.verdict.lookup = <<owner, repo>>

\* C26 (Spec): POST /api/insert answers success=false with the message
\* "Duplicate project - already exists in database" only when a row with the
\* request's github_url is stored; a URL turned down by the validation is not
\* answered as a duplicate.
C26_DuplicateAnswerOnlyForStoredUrl ==
    [][\A p \in Procs :
        (/\ loc'[p].op = "insert"
         /\ loc'[p].response # loc[p].response
         /\ ~loc'[p].response.success
         /\ loc'[p].response.message =
                "Duplicate project - already exists in database") =>
            \E r \in hacks' : r.githubLink = loc'[p].github_url]_vars

\* the two URLs are of the accepted format and name the same owner and
\* repository
SameRepository(url, other) ==
    /\ match_pattern(url).matched
    /\ match_pattern(other) = match_pattern(url)

\* C27 (SpecSeq): with the requests served one after the other, a call for
\* a URL naming a repository that a stored row already names, in whatever
\* spelling (scheme, "www.", ".git", trailing slash), inserts nothing: the
\* table never holds two rows for one repository.
C27_OneRecordPerRepository ==
    \A r1, r2 \in hacks : SameRepository(r1.githubLink, r2.githubLink) => r1 = r2

\* C28 (Spec): of two delete_by_id calls for the same id (ids are never
\* given twice, so for the same row), however their steps interleave, at most
\* one returns success: no row is reported deleted twice.
C28_DeletedOnce ==
    \A p, q \in Procs :
        (/\ p # q
         /\ pc[p] = "done" /\ loc[p].op = "delete"
         /\ pc[q] = "done" /\ loc[q].op = "delete"
         /\ loc[p].project_id = loc[q].project_id) =>
            ~(loc[p].result.success /\ loc[q].result.success)

\* how many entries of a result list carry the name
NamedIn(list, name) == Cardinality({k \in DOMAIN list : list[k][1] = name})

\* the two lists hold every winner of the table once between them
PartitionWinners(by_category, excluding_category) ==
    /\ Len(by_category) + Len(excluding_category) = Cardinality(WinnerRows(hacks))
    /\ \A r \in WinnerRows(hacks) :
        NamedIn(by_category, r.name) + NamedIn(excluding_category, r.name) =
            Cardinality({w \in WinnerRows(hacks) : w.name = r.name})

\* C29 (SpecQuery): for every term and table, with a limit no smaller than
\* the number of winners, get_winners_by_category(term) and
\* get_winners_excluding_category(term) return every winner exactly once
\* between them, on either backend, winners with a NULL topic and the empty
\* term included.
C29_CategoryReadsPartitionWinners ==
    (/\ probe.fn = "query" /\ probe.applied
     /\ probe.limit >= Cardinality(WinnerRows(hacks))) =>
        \A reads \in {probe.sqlite, probe.snowflake} :
            \A by_category \in reads.get_winners_by_category,
               excluding_category \in reads.get_winners_excluding_category :
                PartitionWinners(by_category, excluding_category)

\* C30 (SpecCors): whatever CORS_ORIGINS holds, the middleware is given
\* allow_credentials true exactly when "*" is not among the parsed origins,
\* so never credentials together with the wildcard origin; an unset or
\* empty value gives exactly the two localhost origins.
C30_NoCredentialsWithWildcard ==
    (probe.fn = "cors" /\ probe.applied) =>
        /\ probe.allow_credentials <=>
               (\A k \in DOMAIN probe.allow_origins : probe.allow_origins[k] # STAR)
        /\ probe.CORS_ORIGINS \in {NULL, <<>>} =>
               /\ probe.allow_origins = <<LOCALHOST_3000, LOCALHOST_5173>>
               /\ probe.allow_credentials

\* C30 witness: a value listing an origin and, written with a slash and
\* white space, the wildcard: both are among the origins and credentials
\* are off
C30_Witness ==
    /\ probe.fn = "cors" /\ probe.applied
    /\ probe.CORS_ORIGINS # NULL
    /\ Contains(probe.CORS_ORIGINS, STAR \o <<"/">>)
    /\ Len(probe.allow_origins) = 2
    /\ \E j, k \in DOMAIN probe.allow_origins :
           probe.allow_origins[j] = STAR /\ probe.allow_origins[k] = ORIGIN_APP
    /\ ~probe.allow_credentials

=============================================================================
